---- MODULE Spec2Model ----
(***************************************************************************)
(* A model of portlint2 (src/portlint2.py), the FreeBSD ports tree lint.   *)
(* Python strings are TLA+ strings; TLC evaluates Len, SubSeq and \o on    *)
(* them, so every string operation of the program is computed character    *)
(* by character.  A Python dict is a function whose DOMAIN is its key set;  *)
(* the ports dict, whose iteration order the program relies on, is a       *)
(* sequence of [name, port] entries in insertion order.                    *)
(***************************************************************************)
EXTENDS Integers, Sequences, FiniteSets, TLC

(***************************************************************************)
(* Python string primitives                                                *)
(***************************************************************************)
\* s[m-1:n], the characters m..n of s
Sub(s, m, n) ==
    IF m > n \/ m > Len(s) THEN "" ELSE SubSeq(s, m, IF n > Len(s) THEN Len(s) ELSE n)

Char(s, k) == Sub(s, k, k)

From(s, k) == Sub(s, k, Len(s))

Whitespace == {" ", "\t", "\n", "\r", "\f"}

UpperLetters == "ABCDEFGHIJKLMNOPQRSTUVWXYZ"

LowerLetters == "abcdefghijklmnopqrstuvwxyz"

Digits == "0123456789"

\* c in s, for a one-character c
InChars(c, s) == \E k \in 1..Len(s) : Char(s, k) = c

\* sub in s
Contains(s, sub) == \E k \in 1..(Len(s) - Len(sub) + 1) : Sub(s, k, k + Len(sub) - 1) = sub

\* s.startswith(p)
StartsWith(s, p) == Len(p) <= Len(s) /\ Sub(s, 1, Len(p)) = p

\* s.endswith(p)
EndsWith(s, p) == Len(p) <= Len(s) /\ Sub(s, Len(s) - Len(p) + 1, Len(s)) = p

\* index of the first occurrence of sub in s, 0 when there is none
Find(s, sub) ==
    IF Contains(s, sub)
    THEN CHOOSE k \in 1..(Len(s) - Len(sub) + 1) :
            /\ Sub(s, k, k + Len(sub) - 1) = sub
            /\ \A j \in 1..(k - 1) : Sub(s, j, j + Len(sub) - 1) # sub
    ELSE 0

LowerChar(c) ==
    IF InChars(c, UpperLetters)
    THEN Char(LowerLetters, CHOOSE k \in 1..Len(UpperLetters) : Char(UpperLetters, k) = c)
    ELSE c

\* s.lower()
RECURSIVE Lower(_)
Lower(s) == IF s = "" THEN "" ELSE LowerChar(Char(s, 1)) \o Lower(From(s, 2))

\* s.strip()
RECURSIVE LStrip(_)
LStrip(s) == IF s # "" /\ Char(s, 1) \in Whitespace THEN LStrip(From(s, 2)) ELSE s

RECURSIVE RStrip(_)
RStrip(s) ==
    IF s # "" /\ Char(s, Len(s)) \in Whitespace THEN RStrip(Sub(s, 1, Len(s) - 1)) ELSE s

Strip(s) == RStrip(LStrip(s))

\* s.replace(old, new) and re.sub of a literal pattern: every non-overlapping
\* occurrence, left to right
RECURSIVE Replace(_, _, _)
Replace(s, old, new) ==
    IF s = "" THEN ""
    ELSE IF StartsWith(s, old) THEN new \o Replace(From(s, Len(old) + 1), old, new)
    ELSE Char(s, 1) \o Replace(From(s, 2), old, new)

\* s.split(sep) for a one-character sep: always at least one field
RECURSIVE SplitOn(_, _)
SplitOn(s, sep) ==
    LET k == Find(s, sep)
    IN  IF k = 0 THEN <<s>> ELSE <<Sub(s, 1, k - 1)>> \o SplitOn(From(s, k + 1), sep)

\* length of the run of non-blank characters s starts with
RECURSIVE WordLen(_)
WordLen(s) == IF s = "" \/ Char(s, 1) \in Whitespace THEN 0 ELSE 1 + WordLen(From(s, 2))

\* s.split(): the blank-separated words, no empty word
RECURSIVE Split(_)
Split(s) ==
    LET t == LStrip(s)
    IN  IF t = "" THEN <<>>
        ELSE <<Sub(t, 1, WordLen(t))>> \o Split(From(t, WordLen(t) + 1))

\* sep.join(words)
RECURSIVE Join(_, _)
Join(sep, words) ==
    IF words = <<>> THEN ""
    ELSE IF Len(words) = 1 THEN words[1]
    ELSE words[1] \o sep \o Join(sep, Tail(words))

\* x in words, for a Python list
InList(x, words) == \E k \in 1..Len(words) : words[k] = x

\* int(s) for a decimal numeral; -1 stands for ValueError (the program only
\* parses day and file counts, which it requires to be positive)
RECURSIVE DigitsValue(_, _)
DigitsValue(s, acc) ==
    IF s = "" THEN acc
    ELSE DigitsValue(From(s, 2),
                     acc * 10 + ((CHOOSE k \in 1..Len(Digits) : Char(Digits, k) = Char(s, 1)) - 1))

IsNumeral(s) == s # "" /\ \A k \in 1..Len(s) : InChars(Char(s, k), Digits)

ParseInt(s) == IF IsNumeral(Strip(s)) THEN DigitsValue(Strip(s), 0) ELSE -1

(***************************************************************************)
(* Python dict primitives                                                  *)
(***************************************************************************)
\* d[k] = v
Put(d, k, v) == [x \in (DOMAIN d) \cup {k} |-> IF x = k THEN v ELSE d[x]]

\* the ports dict: entries [name, port] in insertion order
Names(ps) == [k \in 1..Len(ps) |-> ps[k].name]

HasName(ps, name) == \E k \in 1..Len(ps) : ps[k].name = name

PortOf(ps, name) == ps[CHOOSE k \in 1..Len(ps) : ps[k].name = name].port

\* del ports[name]
RECURSIVE DelPort(_, _)
DelPort(ps, name) ==
    IF ps = <<>> THEN <<>>
    ELSE IF ps[1].name = name THEN Tail(ps)
    ELSE <<ps[1]>> \o DelPort(Tail(ps), name)

(***************************************************************************)
(* Program constants and globals                                           *)
(***************************************************************************)
PORT_CATEGORIES == {
    "accessibility", "afterstep", "arabic", "archivers", "astro", "audio", "benchmarks", "biology",
    "cad", "chinese", "comms", "converters", "databases", "deskutils", "devel", "dns", "docs",
    "editors", "education", "elisp", "emulators", "enlightenment", "finance", "french", "ftp",
    "games", "geography", "german", "gnome", "gnustep", "graphics", "hamradio", "haskell", "hebrew",
    "hungarian", "irc", "japanese", "java", "kde", "kde-applications", "kde-frameworks",
    "kde-plasma", "kld", "korean", "lang", "linux", "lisp", "mail", "mate", "math", "mbone", "misc",
    "multimedia", "net", "net-im", "net-mgmt", "net-p2p", "net-vpn", "news", "parallel", "pear",
    "perl5", "plan9", "polish", "ports-mgmt", "portuguese", "print", "python", "ruby", "rubygems",
    "russian", "scheme", "science", "security", "shells", "spanish", "sysutils", "tcl", "textproc",
    "tk", "ukrainian", "vietnamese", "wayland", "windowmaker", "www", "x11", "x11-clocks",
    "x11-drivers", "x11-fm", "x11-fonts", "x11-servers", "x11-themes", "x11-toolkits", "x11-wm",
    "xfce", "zope" }

\* the default parameters
DefaultParameters ==
    [k \in {"Show categories", "Show maintainers", "Checks", "Limits",
            "Categories", "Maintainers", "Ports"} |->
        CASE k = "Show categories" -> FALSE
          [] k = "Show maintainers" -> FALSE
          [] k = "Checks" -> [c \in {"Hostnames", "URL"} |-> FALSE]
          [] k = "Limits" ->
                [l \in {"PLIST abuse", "BROKEN since", "FORBIDDEN since",
                        "DEPRECATED since", "Unchanged since"} |->
                    CASE l = "PLIST abuse" -> 7
                      [] l = "BROKEN since" -> 6 * 30
                      [] l = "FORBIDDEN since" -> 3 * 30
                      [] l = "DEPRECATED since" -> 6 * 30
                      [] l = "Unchanged since" -> 3 * 365]
          [] k = "Categories" -> <<>>
          [] k = "Maintainers" -> <<>>
          [] k = "Ports" -> <<>>]

CounterNames == {
    "FreeBSD ports", "Selected ports", "Nonexistent Makefile", "Nonexistent port-path",
    "Unusual installation-prefix", "Too long comments", "Uncapitalized comments",
    "Dot-ended comments", "Diverging comments", "Nonexistent description-file",
    "URL ending description-file", "description-file same as comment",
    "Too short description-file", "Nonexistent pkg-plist", "PLIST_FILES abuse",
    "Diverging maintainers", "Unofficial categories", "Diverging categories",
    "Empty www-site", "Unresolvable www-site", "Unaccessible www-site", "Diverging www-site",
    "Marked as BROKEN", "Marked as BROKEN for too long", "Marked as FORBIDDEN",
    "Marked as FORBIDDEN for too long", "Marked as IGNORE", "Marked as DEPRECATED",
    "Marked as DEPRECATED for too long", "Unchanged for a long time" }

\* the global dictionary of counters, as the module defines it
InitialCounters == [c \in CounterNames |-> 0]

\* the messages the program logs at critical, error and warning level, counted
\* per level (info and debug are disabled by _initialize_debugging)
LogLevels == {"critical", "error", "warning"}

InitialLog == [l \in LogLevels |-> 0]

(***************************************************************************)
(* notify_maintainer                                                       *)
(***************************************************************************)
\* a bug: the package id is appended without looking for it in the list
notify_maintainer_always_appends(notif, maintainer, error, port) ==
    IF maintainer \in DOMAIN notif
    THEN IF error \in DOMAIN notif[maintainer]
         THEN Put(notif, maintainer,
                  Put(notif[maintainer], error, Append(notif[maintainer][error], port)))
         ELSE Put(notif, maintainer, Put(notif[maintainer], error, <<port>>))
    ELSE Put(notif, maintainer, Put(<<>>, error, <<port>>))

\* the notifications dict after notify_maintainer(maintainer, error, port)
notify_maintainer(notif, maintainer, error, port) ==
    IF maintainer \in DOMAIN notif
    THEN IF error \in DOMAIN notif[maintainer]
         THEN IF ~InList(port, notif[maintainer][error])
              THEN Put(notif, maintainer,
                       Put(notif[maintainer], error, Append(notif[maintainer][error], port)))
              ELSE notif
         ELSE Put(notif, maintainer, Put(notif[maintainer], error, <<port>>))
    ELSE Put(notif, maintainer, Put(<<>>, error, <<port>>))

\* The state the checks share: counters, notifications, log, the calls of
\* notify_maintainer made so far, and whether an exception has been raised
\* (nothing catches one: it ends the run).
\* notify_maintainer(maintainer, kind, port)
Notify(st, maintainer, kind, port) ==
    [st EXCEPT !.notifications = notify_maintainer(@, maintainer, kind, port),
               !.calls = Append(@, <<maintainer, kind, port>>)]

\* logging.<level>(...); counters[counter] += 1; notify_maintainer(maintainer, kind, port)
Finding(st, level, counter, maintainer, kind, port) ==
    Notify([st EXCEPT !.log[level] = @ + 1, !.counters[counter] = @ + 1],
           maintainer, kind, port)

\* logging.<level>(...) alone
Logged(st, level) == [st EXCEPT !.log[level] = @ + 1]

\* counters[counter] += 1 alone
Counted(st, counter) == [st EXCEPT !.counters[counter] = @ + 1]

(***************************************************************************)
(* _process_command_line.  The options are the (option, argument) pairs    *)
(* getopt returns.  The result is the parameters, the log, and the exit    *)
(* status of sys.exit, -1 while the program goes on.                       *)
(***************************************************************************)
Running == -1

\* --broken, --deprecated, --forbidden, --plist, --unchanged: int(argument)
\* stored under parameters["Checks"], then compared with the minimum
ThresholdOption(r, key, minimum, argument) ==
    IF ~IsNumeral(Strip(argument))
    THEN [r EXCEPT !.log["critical"] = @ + 1, !.exit = 1]
    ELSE LET stored == [r EXCEPT !.parameters["Checks"] = Put(@, key, ParseInt(argument))]
         IN  IF stored.parameters["Checks"][key] < minimum
             THEN [stored EXCEPT !.log["critical"] = @ + 1, !.exit = 1]
             ELSE stored

\* a bug: a summary mode does not switch the other one off
ProcessOption_modes_add_up(r, option, argument) ==
    CASE option \in {"--show-cat", "-C"} -> [r EXCEPT !.parameters["Show categories"] = TRUE]
      [] option \in {"--show-mnt", "-M"} -> [r EXCEPT !.parameters["Show maintainers"] = TRUE]
      [] OTHER -> r

ProcessOption(r, option, argument) ==
    CASE option = "--debug" -> r
      [] option \in {"--help", "-?"} -> [r EXCEPT !.exit = 0]
      [] option = "--info" -> r
      [] option = "--version" -> [r EXCEPT !.exit = 0]
      [] option = "--broken" -> ThresholdOption(r, "BROKEN since", 30, argument)
      [] option \in {"--cat", "-c"} ->
            [r EXCEPT !.parameters["Categories"] = SplitOn(Lower(argument), ",")]
      [] option \in {"--check-host", "-h"} ->
            [r EXCEPT !.parameters["Checks"]["Hostnames"] = TRUE]
      [] option \in {"--check-url", "-u"} ->
            [r EXCEPT !.parameters["Checks"]["Hostnames"] = TRUE,
                      !.parameters["Checks"]["URL"] = TRUE]
      [] option = "--deprecated" -> ThresholdOption(r, "DEPRECATED since", 30, argument)
      [] option = "--forbidden" -> ThresholdOption(r, "FORBIDDEN since", 30, argument)
      [] option \in {"--mnt", "-m"} ->
            [r EXCEPT !.parameters["Maintainers"] = SplitOn(Lower(argument), ",")]
      [] option = "--plist" -> ThresholdOption(r, "PLIST abuse", 3, argument)
      [] option \in {"--port", "-p"} ->
            [r EXCEPT !.parameters["Ports"] = SplitOn(argument, ",")]
      [] option \in {"--show-cat", "-C"} ->
            [r EXCEPT !.parameters["Show categories"] = TRUE,
                      !.parameters["Show maintainers"] = FALSE]
      [] option \in {"--show-mnt", "-M"} ->
            [r EXCEPT !.parameters["Show maintainers"] = TRUE,
                      !.parameters["Show categories"] = FALSE]
      [] option = "--unchanged" -> ThresholdOption(r, "Unchanged since", 30, argument)
      [] OTHER -> r

RECURSIVE ProcessOptions(_, _)
ProcessOptions(r, options) ==
    IF options = <<>> \/ r.exit # Running THEN r
    ELSE ProcessOptions(ProcessOption(r, options[1][1], options[1][2]), Tail(options))

(***************************************************************************)
(* The file system: the set of directories, and for each regular file its  *)
(* lines (what read().splitlines() returns) and its modification time;     *)
(* and the offset of the local time zone.  Times are UTC, in hours, and    *)
(* counted from now, which is hour 0.                                      *)
(***************************************************************************)
IsDir(fsys, path) == path \in fsys.dirs

IsFile(fsys, path) == path \in DOMAIN fsys.files

ReadLines(fsys, path) == fsys.files[path].lines

GetMTime(fsys, path) == fsys.files[path].mtime

\* timedelta(days=1), in hours: the unit of time
HoursPerDay == 24

\* datetime.fromtimestamp(t).replace(tzinfo=timezone.utc): the wall-clock time
\* of the local zone, fsys.utc_offset hours east of UTC, taken for a UTC time
LocalTimeAsUtc(fsys, t) == t + fsys.utc_offset

Today == 0

(***************************************************************************)
(* load_freebsd_ports_dict                                                 *)
(***************************************************************************)
IndexKeys == <<"port-path", "installation-prefix", "comment", "description-file", "maintainer",
               "categories", "extract-depends", "patch-depends", "www-site", "fetch-depends",
               "build-depentds", "run-depends">>

FieldCount == Len(IndexKeys) + 1

\* the record built from the 13 fields of a line
PortFromFields(fields) ==
    [k \in {IndexKeys[n] : n \in 1..Len(IndexKeys)} |->
        LET field == fields[1 + CHOOSE n \in 1..Len(IndexKeys) : IndexKeys[n] = k]
        IN  IF k = "maintainer" THEN Lower(field) ELSE field]

\* a bug: a line repeating an identifier replaces the stored record
LoadLine_last_wins(r, line) ==
    LET fields == SplitOn(line, "|")
    IN  IF Len(fields) # FieldCount THEN [r EXCEPT !.log["error"] = @ + 1]
        ELSE IF HasName(r.ports, fields[1])
        THEN [r EXCEPT !.ports = [k \in 1..Len(r.ports) |->
                                    IF r.ports[k].name = fields[1]
                                    THEN [name |-> fields[1], port |-> PortFromFields(fields)]
                                    ELSE r.ports[k]]]
        ELSE [r EXCEPT !.ports = Append(@, [name |-> fields[1], port |-> PortFromFields(fields)])]

\* the body of the loop over the lines of the index
LoadLine(r, line) ==
    LET fields == SplitOn(line, "|")
    IN  IF Len(fields) # FieldCount THEN [r EXCEPT !.log["error"] = @ + 1]
        ELSE IF HasName(r.ports, fields[1]) THEN [r EXCEPT !.log["error"] = @ + 1]
        ELSE [r EXCEPT !.ports = Append(@, [name |-> fields[1], port |-> PortFromFields(fields)])]

RECURSIVE LoadLines(_, _)
LoadLines(r, lines) ==
    IF lines = <<>> THEN r ELSE LoadLines(LoadLine(r, lines[1]), Tail(lines))

\* "/usr/ports/INDEX-" + os_version
PortsIndex(operating_system) == "/usr/ports/INDEX-" \o Replace(operating_system, "freebsd", "")

(***************************************************************************)
(* print_categories, print_maintainers: the counts they print              *)
(***************************************************************************)
RECURSIVE CountWords(_, _)
CountWords(counts, words) ==
    IF words = <<>> THEN counts
    ELSE CountWords(Put(counts, words[1],
                        IF words[1] \in DOMAIN counts THEN counts[words[1]] + 1 ELSE 1),
                    Tail(words))

RECURSIVE CategoryCounts(_, _)
CategoryCounts(counts, ps) ==
    IF ps = <<>> THEN counts
    ELSE CategoryCounts(CountWords(counts, Split(ps[1].port["categories"])), Tail(ps))

RECURSIVE MaintainerCounts(_, _)
MaintainerCounts(counts, ps) ==
    IF ps = <<>> THEN counts
    ELSE MaintainerCounts(CountWords(counts, <<ps[1].port["maintainer"]>>), Tail(ps))

(***************************************************************************)
(* filter_ports                                                            *)
(***************************************************************************)
\* re.sub(r".*/", "", path): what follows the last slash
RECURSIVE AfterLastSlash(_)
AfterLastSlash(s) ==
    IF Contains(s, "/") THEN AfterLastSlash(From(s, Find(s, "/") + 1)) ELSE s

\* the body of the loop over the names; ports[port] raises KeyError when the
\* word is not a key of the dict
FilterPort(r, port, selected_categories, selected_maintainers, selected_ports) ==
    IF ~HasName(r.ports, port) THEN [r EXCEPT !.raised = TRUE]
    ELSE LET p == PortOf(r.ports, port)
         IN  IF selected_maintainers # <<>> /\ ~InList(p["maintainer"], selected_maintainers)
             THEN [r EXCEPT !.ports = DelPort(@, port)]
             ELSE IF /\ selected_categories # <<>>
                     /\ ~\E n \in 1..Len(Split(p["categories"])) :
                            InList(Split(p["categories"])[n], selected_categories)
             THEN [r EXCEPT !.ports = DelPort(@, port)]
             ELSE IF /\ selected_ports # <<>>
                     /\ ~InList(AfterLastSlash(p["port-path"]), selected_ports)
             THEN [r EXCEPT !.ports = DelPort(@, port)]
             ELSE r

RECURSIVE FilterPorts(_, _, _, _, _)
FilterPorts(r, names, selected_categories, selected_maintainers, selected_ports) ==
    IF names = <<>> \/ r.raised THEN r
    ELSE FilterPorts(FilterPort(r, names[1], selected_categories, selected_maintainers,
                                selected_ports),
                     Tail(names), selected_categories, selected_maintainers, selected_ports)

\* the ports dict filter_ports returns, and whether it raised
filter_ports(ps, selected_categories, selected_maintainers, selected_ports) ==
    IF selected_categories # <<>> \/ selected_maintainers # <<>> \/ selected_ports # <<>>
    THEN FilterPorts([ports |-> ps, raised |-> FALSE], Split(Join(" ", Names(ps))),
                     selected_categories, selected_maintainers, selected_ports)
    ELSE [ports |-> ps, raised |-> FALSE]

(***************************************************************************)
(* update_with_makefiles                                                   *)
(***************************************************************************)
\* the blanks of the patterns [ \t]*
Blank == {" ", "\t"}

RECURSIVE LStripBlank(_)
LStripBlank(s) == IF s # "" /\ Char(s, 1) \in Blank THEN LStripBlank(From(s, 2)) ELSE s

RECURSIVE RStripBlank(_)
RStripBlank(s) ==
    IF s # "" /\ Char(s, Len(s)) \in Blank THEN RStripBlank(Sub(s, 1, Len(s) - 1)) ELSE s

\* re.sub(r"[ \t]*#.*", "", s): the leftmost match starts at the blanks before
\* the first '#' and runs to the end of the line
RemoveComment(s) ==
    IF Contains(s, "#") THEN RStripBlank(Sub(s, 1, Find(s, "#") - 1)) ELSE s

\* the value of line after the comment stripping of one physical line
LogicalLine(previous_lines, line) ==
    IF ~Contains(line, "#") THEN previous_lines \o Strip(line)
    ELSE IF Contains(line, "\\#")
    THEN Replace(previous_lines \o RemoveComment(Strip(Replace(line, "\\#", "²"))), "²", "\\#")
    ELSE previous_lines \o RemoveComment(Strip(line))

\* length of the run of characters of [A-Z_] that s starts with
RECURSIVE NameLen(_)
NameLen(s) ==
    IF s # "" /\ (InChars(Char(s, 1), UpperLetters) \/ Char(s, 1) = "_")
    THEN 1 + NameLen(From(s, 2)) ELSE 0

\* a bug: the variable name may be any run of characters up to the '='
MatchAssignment_any_name(line) ==
    IF Find(line, "=") > 1
    THEN [matched |-> TRUE, name |-> Sub(line, 1, Find(line, "=") - 1),
          value |-> LStripBlank(From(line, Find(line, "=") + 1))]
    ELSE [matched |-> FALSE, name |-> "", value |-> ""]

\* re.match(r"^([A-Z_]+)=[ \t]*(.*)", line): whether it matches, group 1, group 2
MatchAssignment(line) ==
    LET n == NameLen(line)
    IN  IF n >= 1 /\ Char(line, n + 1) = "="
        THEN [matched |-> TRUE, name |-> Sub(line, 1, n),
              value |-> LStripBlank(From(line, n + 2))]
        ELSE [matched |-> FALSE, name |-> "", value |-> ""]

\* the loop over the lines of one Makefile: the port's dict after it
RECURSIVE ParseMakefile(_, _, _)
ParseMakefile(port, lines, previous_lines) ==
    IF lines = <<>> THEN port
    ELSE LET line == LogicalLine(previous_lines, lines[1])
         IN  IF line = "" THEN ParseMakefile(port, Tail(lines), "")
             ELSE IF EndsWith(line, "\\")
             THEN ParseMakefile(port, Tail(lines), Sub(line, 1, Len(line) - 1))
             ELSE LET group == MatchAssignment(line)
                  IN  IF group.matched
                      THEN ParseMakefile(Put(port, group.name, group.value), Tail(lines), "")
                      ELSE ParseMakefile(port, Tail(lines), "")

SetPort(ps, name, port) ==
    [k \in 1..Len(ps) |-> IF ps[k].name = name THEN [ps[k] EXCEPT !.port = port] ELSE ps[k]]

\* a bug: the variables of the Makefile are read, its modification time is not
UpdatePort_without_modification_time(st, fsys, name) ==
    LET port == PortOf(st.ports, name)
        port_makefile == port["port-path"] \o "/" \o "Makefile"
    IN  IF ~IsDir(fsys, port["port-path"]) THEN st
        ELSE IF ~IsFile(fsys, port_makefile)
        THEN Finding(st, "error", "Nonexistent Makefile", port["maintainer"],
                     "Nonexistent Makefile", name)
        ELSE [st EXCEPT !.ports =
                SetPort(@, name, ParseMakefile(port, ReadLines(fsys, port_makefile), ""))]

\* the body of the loop over the ports
UpdatePort(st, fsys, name) ==
    LET port == PortOf(st.ports, name)
        port_makefile == port["port-path"] \o "/" \o "Makefile"
    IN  IF ~IsDir(fsys, port["port-path"]) THEN st
        ELSE IF ~IsFile(fsys, port_makefile)
        THEN Finding(st, "error", "Nonexistent Makefile", port["maintainer"],
                     "Nonexistent Makefile", name)
        ELSE [st EXCEPT !.ports =
                SetPort(@, name,
                        ParseMakefile(Put(port, "Last modification",
                                          LocalTimeAsUtc(fsys, GetMTime(fsys, port_makefile))),
                                      ReadLines(fsys, port_makefile), ""))]

RECURSIVE UpdatePorts(_, _, _)
UpdatePorts(st, fsys, names) ==
    IF names = <<>> THEN st ELSE UpdatePorts(UpdatePort(st, fsys, names[1]), fsys, Tail(names))

update_with_makefiles(st, fsys) == UpdatePorts(st, fsys, Names(st.ports))

(***************************************************************************)
(* The checks.  Each loop body takes the shared state st, the port's name  *)
(* and dict, and gives the state after it; st.raised tells that the body   *)
(* raised an exception, which no check catches.                            *)
(***************************************************************************)
\* check_port_path
CheckPortPath(st, fsys, name, port) ==
    IF ~IsDir(fsys, port["port-path"])
    THEN Finding(st, "error", "Nonexistent port-path", port["maintainer"],
                 "Nonexistent port-path", name)
    ELSE st

\* the condition of the if/elif chain of check_installation_prefix under which
\* the port passes; "and" binds tighter than "or"
UsualPrefix(prefix, name) ==
    \/ prefix = "/usr/local"
    \/ prefix = "/compat/linux" /\ StartsWith(name, "linux")
    \/ prefix = "/usr/local/FreeBSD_ARM64" /\ Contains(name, "-aarch64-")
    \/ StartsWith(prefix, "/usr/local/android") /\ Contains(name, "droid")
    \/ (prefix = "/var/qmail" /\ Contains(name, "qmail")) \/ StartsWith(name, "queue-fix")
    \/ (prefix = "/usr" /\ StartsWith(name, "global-tz-")) \/ StartsWith(name, "zoneinfo-")

\* check_installation_prefix
CheckInstallationPrefix(st, name, port) ==
    IF UsualPrefix(port["installation-prefix"], name) THEN st
    ELSE Finding(st, "warning", "Unusual installation-prefix", port["maintainer"],
                 "Unusual installation-prefix", name)

\* a bug: a value with an embedded variable is compared like any other
CommentCrossCheck_no_marker(st, name, port) ==
    IF "COMMENT" \in DOMAIN port
    THEN IF Replace(port["comment"], "\\", "") # Replace(port["COMMENT"], "\\", "")
         THEN Logged(Logged(Finding(st, "error", "Diverging comments", port["maintainer"],
                                    "Diverging comments", name), "error"), "error")
         ELSE st
    ELSE st

\* the last block of the loop body of check_comment
CommentCrossCheck(st, name, port) ==
    IF "COMMENT" \in DOMAIN port
    THEN IF Contains(port["COMMENT"], "$") THEN st
         ELSE IF Replace(port["comment"], "\\", "") # Replace(port["COMMENT"], "\\", "")
         THEN Logged(Logged(Finding(st, "error", "Diverging comments", port["maintainer"],
                                    "Diverging comments", name), "error"), "error")
         ELSE st
    ELSE st

\* a bug: the comments that start with a lower-case letter are not reported
CheckComment_capitals_ignored(st, name, port) ==
    IF port["comment"] = "" THEN [st EXCEPT !.raised = TRUE]
    ELSE CommentCrossCheck(IF EndsWith(port["comment"], ".")
                           THEN Finding(st, "error", "Dot-ended comments", port["maintainer"],
                                        "Dot-ended comments", name)
                           ELSE st,
                           name, port)

\* check_comment; port["comment"][0] raises IndexError on an empty comment
CheckComment(st, name, port) ==
    LET comment == port["comment"]
        s1 == IF Len(comment) > 70
              THEN Finding(st, "warning", "Too long comments", port["maintainer"],
                           "Too long comments", name)
              ELSE st
    IN  IF comment = "" THEN [s1 EXCEPT !.raised = TRUE]
        ELSE LET s2 == IF InChars(Char(comment, 1), LowerLetters)
                       THEN Finding(s1, "error", "Uncapitalized comments", port["maintainer"],
                                    "Uncapitalized comments", name)
                       ELSE s1
                 s3 == IF EndsWith(comment, ".")
                       THEN Finding(s2, "error", "Dot-ended comments", port["maintainer"],
                                    "Dot-ended comments", name)
                       ELSE s2
             IN  CommentCrossCheck(s3, name, port)

\* check_description_file
CheckDescriptionFile(st, fsys, name, port) ==
    LET descr == port["description-file"]
        nonexistent ==
            IF ~StartsWith(descr, port["port-path"]) THEN ~IsFile(fsys, descr)
            ELSE IF ~IsDir(fsys, port["port-path"]) THEN FALSE
            ELSE ~IsFile(fsys, descr)
    IN  IF nonexistent
        THEN Finding(st, "error", "Nonexistent description-file", port["maintainer"],
                     "Nonexistent description-file", name)
        ELSE LET lines == IF IsFile(fsys, descr) THEN ReadLines(fsys, descr) ELSE <<>>
             IN  IF lines = <<>> THEN st
                 ELSE LET last == Strip(lines[Len(lines)])
                          url == StartsWith(last, "https://") \/ StartsWith(last, "http://")
                          s1 == IF url
                                THEN Finding(st, "error", "URL ending description-file",
                                             port["maintainer"], "URL ending description-file",
                                             name)
                                ELSE st
                          kept == IF url THEN SubSeq(lines, 1, Len(lines) - 1) ELSE lines
                          text == Strip(Join(" ", kept))
                      IN  IF port["comment"] = text
                          THEN Finding(s1, "error", "description-file same as comment",
                                       port["maintainer"], "description-file same as comment",
                                       name)
                          ELSE IF Len(text) <= Len(port["comment"])
                          THEN Finding(s1, "error", "Too short description-file",
                                       port["maintainer"], "Too short description-file", name)
                          ELSE s1

\* check_plist
CheckPlist(st, fsys, name, port, plist_abuse) ==
    IF IsDir(fsys, port["port-path"]) /\ ~IsFile(fsys, port["port-path"] \o "/" \o "pkg-plist")
    THEN IF "PLIST_FILES" \notin DOMAIN port
         THEN IF "PLIST" \notin DOMAIN port /\ "PLIST_SUB" \notin DOMAIN port
              THEN Counted(st, "Nonexistent pkg-plist")
              ELSE st
         ELSE IF Len(Split(port["PLIST_FILES"])) >= plist_abuse
              THEN Finding(st, "warning", "PLIST_FILES abuse", port["maintainer"],
                           "PLIST_FILES abuse", name)
              ELSE st
    ELSE st

\* a bug: the maintainer of the Makefile is notified under its lower-cased name
CheckMaintainer_lower_cased(st, name, port) ==
    IF "MAINTAINER" \in DOMAIN port
    THEN IF Contains(port["MAINTAINER"], "$") THEN st
         ELSE IF port["maintainer"] # Lower(port["MAINTAINER"])
         THEN LET s1 == Logged(Logged(Finding(st, "error", "Diverging maintainers",
                                              port["maintainer"], "Diverging maintainers",
                                              name), "error"), "error")
              IN  Notify(s1, Lower(port["MAINTAINER"]), "Diverging maintainers", name)
         ELSE st
    ELSE st

\* check_maintainer
CheckMaintainer(st, name, port) ==
    IF "MAINTAINER" \in DOMAIN port
    THEN IF Contains(port["MAINTAINER"], "$") THEN st
         ELSE IF port["maintainer"] # Lower(port["MAINTAINER"])
         THEN LET s1 == Logged(Logged(Finding(st, "error", "Diverging maintainers",
                                              port["maintainer"], "Diverging maintainers",
                                              name), "error"), "error")
              IN  Notify(s1, port["MAINTAINER"], "Diverging maintainers", name)
         ELSE st
    ELSE st

\* a bug: a category that occurs twice is reported for its first occurrence
\* only
RECURSIVE UnofficialCategories_once_per_category(_, _, _, _)
UnofficialCategories_once_per_category(st, name, port, categories) ==
    IF categories = <<>> THEN st
    ELSE UnofficialCategories_once_per_category(
            IF categories[1] \notin PORT_CATEGORIES
            THEN Finding(st, "warning", "Unofficial categories", port["maintainer"],
                         "Unofficial category", name)
            ELSE st,
            name, port,
            SelectSeq(Tail(categories), LAMBDA category : category # categories[1]))

\* the loops of check_categories over the words of a category list
RECURSIVE UnofficialCategories(_, _, _, _)
UnofficialCategories(st, name, port, categories) ==
    IF categories = <<>> THEN st
    ELSE UnofficialCategories(
            IF categories[1] \notin PORT_CATEGORIES
            THEN Finding(st, "warning", "Unofficial categories", port["maintainer"],
                         "Unofficial category", name)
            ELSE st,
            name, port, Tail(categories))

\* the second block of the loop body of check_categories
CategoriesCrossCheck(st, name, port) ==
    IF "CATEGORIES" \in DOMAIN port
    THEN IF Contains(port["CATEGORIES"], "$") THEN st
         ELSE LET s1 == IF port["categories"] # port["CATEGORIES"]
                        THEN Logged(Logged(Finding(st, "error", "Diverging categories",
                                                   port["maintainer"], "Diverging categories",
                                                   name), "error"), "error")
                        ELSE st
              IN  UnofficialCategories(s1, name, port, Split(port["CATEGORIES"]))
    ELSE st

\* check_categories
CheckCategories(st, name, port) ==
    CategoriesCrossCheck(UnofficialCategories(st, name, port, Split(port["categories"])),
                         name, port)

(***************************************************************************)
(* check_www_site, _resolve_hostname, _handle_url_errors                   *)
(***************************************************************************)
\* length of the match of r"http[s]*://" at the start of s, 0 without a match
RECURSIVE CountS(_)
CountS(s) == IF s # "" /\ Char(s, 1) = "s" THEN 1 + CountS(From(s, 2)) ELSE 0

SchemeLen(s) ==
    IF StartsWith(s, "http") /\ StartsWith(From(s, 5 + CountS(From(s, 5))), "://")
    THEN 4 + CountS(From(s, 5)) + 3
    ELSE 0

\* re.sub(r"http[s]*://", "", s)
RECURSIVE RemoveSchemes(_)
RemoveSchemes(s) ==
    IF s = "" THEN ""
    ELSE IF SchemeLen(s) > 0 THEN RemoveSchemes(From(s, SchemeLen(s) + 1))
    ELSE Char(s, 1) \o RemoveSchemes(From(s, 2))

\* re.sub(r"/.*", "", s)
CutAtSlash(s) == IF Contains(s, "/") THEN Sub(s, 1, Find(s, "/") - 1) ELSE s

RECURSIVE CountDigits(_)
CountDigits(s) ==
    IF s # "" /\ InChars(Char(s, 1), Digits) THEN 1 + CountDigits(From(s, 2)) ELSE 0

\* re.sub(r":[0-9]*", "", s)
RECURSIVE RemovePortNumbers(_)
RemovePortNumbers(s) ==
    IF s = "" THEN ""
    ELSE IF Char(s, 1) = ":" THEN RemovePortNumbers(From(s, 2 + CountDigits(From(s, 2))))
    ELSE Char(s, 1) \o RemovePortNumbers(From(s, 2))

\* the hostname check_www_site extracts from port["www-site"]
Hostname(www_site) == RemovePortNumbers(CutAtSlash(RemoveSchemes(www_site)))

\* urllib.request.Request(url) raises ValueError, outside the try block, for a
\* url that does not start with a scheme, "<characters other than / and :>:"
RECURSIVE SchemeNameLen(_)
SchemeNameLen(s) ==
    IF s # "" /\ Char(s, 1) \notin {"/", ":"} THEN 1 + SchemeNameLen(From(s, 2)) ELSE 0

HasScheme(url) == SchemeNameLen(url) >= 1 /\ Char(url, SchemeNameLen(url) + 1) = ":"

\* the error codes the if/elif chain names, each with the reason it gives
UnaccessibleReasons ==
    [c \in {"404", "410", "401", "451"} |->
        CASE c = "404" -> "HTTP Error 404 (Not found) on www-site"
          [] c = "410" -> "HTTP Error 410 (Gone) on www-site"
          [] c = "401" -> "HTTP Error 401 (Unauthorized) on www-site"
          [] c = "451" -> "HTTP Error 451 (Unavailable for legal reasons) on www-site"]

\* re.sub(r":.*", "", s)
CutAtColon(s) == IF Contains(s, ":") THEN Sub(s, 1, Find(s, ":") - 1) ELSE s

\* a bug: a permanent redirect is taken for an inaccessible site
ErrorCode_redirect_as_gone(error) ==
    LET code == CutAtColon(Replace(Lower(error), "http error ", ""))
    IN  IF code \in {"301", "308"} THEN "410" ELSE code

\* error_code, for an error that starts with "http error" ignoring case
ErrorCode(error) == CutAtColon(Replace(Lower(error), "http error ", ""))

\* _handle_url_errors: the state after it, and is_unaccessible
HandleUrlErrors(st, port_name, www_site, error, maintainer) ==
    IF StartsWith(Lower(error), "http error")
    THEN IF ErrorCode(error) \in DOMAIN UnaccessibleReasons
         THEN [st |-> Notify(Logged(st, "error"), maintainer,
                             UnaccessibleReasons[ErrorCode(error)], port_name),
               is_unaccessible |-> TRUE]
         ELSE IF ErrorCode(error) \in {"301", "308"}
         THEN [st |-> st, is_unaccessible |-> FALSE]
         ELSE [st |-> Logged(st, "warning"), is_unaccessible |-> FALSE]
    ELSE IF error = "<urlopen error [Errno 8] Name does not resolve>"
    THEN [st |-> Counted(Logged(st, "error"), "Unresolvable www-site"),
          is_unaccessible |-> FALSE]
    ELSE [st |-> st, is_unaccessible |-> FALSE]

\* if _handle_url_errors(...): counters["Unaccessible www-site"] += 1
CountUrlErrors(st, port_name, www_site, error, maintainer) ==
    LET h == HandleUrlErrors(st, port_name, www_site, error, maintainer)
    IN  IF h.is_unaccessible THEN Counted(h.st, "Unaccessible www-site") ELSE h.st

\* The network calls made so far, in order: [op, key, port, ok], op "resolve"
\* (socket.gethostbyname) or "fetch" (urllib.request.urlopen).
NetCall(op, key, port, ok) == [op |-> op, key |-> key, port |-> port, ok |-> ok]

\* a bug: a hostname that failed to resolve is not remembered
Resolve_forgets(st, hostname, name, resolves) ==
    IF InList(hostname, st.unresolvable_hostnames) THEN [st |-> st, resolvable |-> FALSE]
    ELSE [st |-> [st EXCEPT !.net = Append(@, NetCall("resolve", hostname, name, resolves))],
          resolvable |-> resolves]

\* the resolution of the hostname of a port: from the negative cache, or by
\* _resolve_hostname, which succeeds (resolves) or raises NameError
Resolve(st, hostname, name, resolves) ==
    IF InList(hostname, st.unresolvable_hostnames) THEN [st |-> st, resolvable |-> FALSE]
    ELSE [st |-> [st EXCEPT !.net = Append(@, NetCall("resolve", hostname, name, resolves)),
                            !.unresolvable_hostnames =
                                IF resolves THEN @ ELSE Append(@, hostname)],
          resolvable |-> resolves]

\* a bug: the success of a fetch is not stored
Fetch_forgets_success(st, name, port, fetch_error) ==
    IF ~HasScheme(port["www-site"]) THEN [st EXCEPT !.raised = TRUE]
    ELSE LET called == [st EXCEPT !.net = Append(@, NetCall("fetch", port["www-site"], name,
                                                            fetch_error = ""))]
         IN  IF fetch_error = "" THEN called
             ELSE CountUrlErrors([called EXCEPT !.url_ko = Put(@, port["www-site"], fetch_error)],
                                 name, port["www-site"], fetch_error, port["maintainer"])

\* a bug: the failure of a fetch is not stored
Fetch_forgets_failure(st, name, port, fetch_error) ==
    IF ~HasScheme(port["www-site"]) THEN [st EXCEPT !.raised = TRUE]
    ELSE LET called == [st EXCEPT !.net = Append(@, NetCall("fetch", port["www-site"], name,
                                                            fetch_error = ""))]
         IN  IF fetch_error = ""
             THEN [called EXCEPT !.url_ok = Append(@, port["www-site"])]
             ELSE CountUrlErrors(called, name, port["www-site"], fetch_error,
                                 port["maintainer"])

\* the live fetch of the www-site of a port: fetch_error is "" when urlopen and
\* read succeed, and str(error) otherwise
Fetch(st, name, port, fetch_error) ==
    IF ~HasScheme(port["www-site"]) THEN [st EXCEPT !.raised = TRUE]
    ELSE LET called == [st EXCEPT !.net = Append(@, NetCall("fetch", port["www-site"], name,
                                                            fetch_error = ""))]
         IN  IF fetch_error = ""
             THEN [called EXCEPT !.url_ok = Append(@, port["www-site"])]
             ELSE CountUrlErrors([called EXCEPT !.url_ko = Put(@, port["www-site"], fetch_error)],
                                 name, port["www-site"], fetch_error, port["maintainer"])

\* the first block of the loop body of check_www_site
SiteCheck(st, name, port, check_host, check_url, resolves, fetch_error) ==
    IF port["www-site"] = ""
    THEN Finding(st, "error", "Empty www-site", port["maintainer"], "Empty www-site", name)
    ELSE IF check_host
    THEN LET r == Resolve(st, Hostname(port["www-site"]), name, resolves)
         IN  IF ~r.resolvable
             THEN Finding(r.st, "error", "Unresolvable www-site", port["maintainer"],
                          "Unresolvable www-site", name)
             ELSE IF InList(port["www-site"], r.st.url_ok) THEN r.st
             ELSE IF port["www-site"] \in DOMAIN r.st.url_ko
             THEN CountUrlErrors(r.st, name, port["www-site"], r.st.url_ko[port["www-site"]],
                                 port["maintainer"])
             ELSE IF check_url THEN Fetch(r.st, name, port, fetch_error)
             ELSE r.st
    ELSE st

\* the second block of the loop body of check_www_site
WwwCrossCheck(st, name, port) ==
    IF "WWW" \in DOMAIN port
    THEN IF Contains(port["WWW"], "$") THEN st
         ELSE IF ~InList(port["www-site"], Split(port["WWW"]))
         THEN Logged(Logged(Finding(st, "error", "Diverging www-site", port["maintainer"],
                                    "Diverging www-site", name), "error"), "error")
         ELSE st
    ELSE st

\* the loop body of check_www_site
CheckWwwSite(st, name, port, check_host, check_url, resolves, fetch_error) ==
    LET s1 == SiteCheck(st, name, port, check_host, check_url, resolves, fetch_error)
    IN  IF s1.raised THEN s1 ELSE WwwCrossCheck(s1, name, port)

(***************************************************************************)
(* check_marks, check_static_ports                                         *)
(***************************************************************************)
\* one of the BROKEN, FORBIDDEN, DEPRECATED blocks; port["Last modification"]
\* raises KeyError when the key is not set
CheckMark(st, name, port, mark, limit) ==
    IF st.raised \/ mark \notin DOMAIN port THEN st
    ELSE IF "Last modification" \notin DOMAIN port THEN [st EXCEPT !.raised = TRUE]
    ELSE IF port["Last modification"] < Today - limit * HoursPerDay
    THEN Notify(Counted(st, "Marked as " \o mark \o " for too long"), port["maintainer"],
                "Marked as " \o mark \o " for too long", name)
    ELSE Notify(Counted(st, "Marked as " \o mark), port["maintainer"],
                "Marked as " \o mark, name)

\* check_marks
CheckMarks(st, name, port, limits) ==
    LET s1 == CheckMark(st, name, port, "BROKEN", limits["BROKEN since"])
        s2 == IF ~s1.raised /\ "IGNORE" \in DOMAIN port THEN Counted(s1, "Marked as IGNORE")
              ELSE s1
        s3 == CheckMark(s2, name, port, "FORBIDDEN", limits["FORBIDDEN since"])
    IN  CheckMark(s3, name, port, "DEPRECATED", limits["DEPRECATED since"])

\* a bug: a port that check_marks has reported as BROKEN for too long is not
\* reported as unchanged
CheckStaticPorts_unless_marked(st, name, port, unchanged_days) ==
    IF /\ "Last modification" \in DOMAIN port
       /\ port["Last modification"] < Today - unchanged_days * HoursPerDay
       /\ ~(/\ port["maintainer"] \in DOMAIN st.notifications
            /\ "Marked as BROKEN for too long" \in DOMAIN st.notifications[port["maintainer"]])
    THEN Notify(Counted(st, "Unchanged for a long time"), port["maintainer"],
                "Unchanged for a long time", name)
    ELSE st

\* check_static_ports
CheckStaticPorts(st, name, port, unchanged_days) ==
    IF /\ "Last modification" \in DOMAIN port
       /\ port["Last modification"] < Today - unchanged_days * HoursPerDay
    THEN Notify(Counted(st, "Unchanged for a long time"), port["maintainer"],
                "Unchanged for a long time", name)
    ELSE st

(***************************************************************************)
(* One check over all the ports, in the order of the dict; the loop ends   *)
(* at the first exception.                                                 *)
(***************************************************************************)
CheckPort(check, st, fsys, params, name, port) ==
    CASE check = "check_port_path" -> CheckPortPath(st, fsys, name, port)
      [] check = "check_installation_prefix" -> CheckInstallationPrefix(st, name, port)
      [] check = "check_comment" -> CheckComment(st, name, port)
      [] check = "check_description_file" -> CheckDescriptionFile(st, fsys, name, port)
      [] check = "check_plist" ->
            CheckPlist(st, fsys, name, port, params["Limits"]["PLIST abuse"])
      [] check = "check_maintainer" -> CheckMaintainer(st, name, port)
      [] check = "check_categories" -> CheckCategories(st, name, port)
      [] check = "check_marks" -> CheckMarks(st, name, port, params["Limits"])
      [] check = "check_static_ports" ->
            CheckStaticPorts(st, name, port, params["Limits"]["Unchanged since"])

RECURSIVE CheckPorts(_, _, _, _, _)
CheckPorts(check, st, fsys, params, ps) ==
    IF ps = <<>> \/ st.raised THEN st
    ELSE CheckPorts(check, CheckPort(check, st, fsys, params, ps[1].name, ps[1].port),
                    fsys, params, Tail(ps))

(***************************************************************************)
(* The run of main() as a state machine                                    *)
(***************************************************************************)
VARIABLES
    argv,                   \* the (option, argument) pairs of the command line
    platform,               \* sys.platform
    fs,                     \* the file system
    parameters,             \* the global parameters
    ports,                  \* the ports dict of main
    counters,               \* the global counters
    notifications,          \* the global notifications
    log,                    \* the number of messages logged, per level
    pc,                     \* the statement of main about to run
    status,                 \* the exit status, Running until the process ends
    out,                    \* what has been printed on standard output
    idx,                    \* check_www_site: position of the loop over the ports
    unresolvable_hostnames, \* check_www_site: hostnames that failed to resolve
    url_ok,                 \* check_www_site: URLs fetched with success
    url_ko,                 \* check_www_site: URL -> str(error) of its failed fetch
    net,                    \* the network calls made so far
    calls,                  \* the calls of notify_maintainer made so far (arguments)
    called                  \* the checks main has called so far

vars == <<argv, platform, fs, parameters, ports, counters, notifications, log, pc, status, out,
          idx, unresolvable_hostnames, url_ok, url_ko, net, calls, called>>

inputs == <<argv, platform, fs>>

www_locals == <<idx, unresolvable_hostnames, url_ok, url_ko, net>>

\* the state the loop bodies work on
St ==
    [ports |-> ports, counters |-> counters, notifications |-> notifications, log |-> log,
     calls |-> calls, raised |-> FALSE, unresolvable_hostnames |-> unresolvable_hostnames,
     url_ok |-> url_ok, url_ko |-> url_ko, net |-> net]

\* the state at the start of the process, for a command line and an environment
Start(options, operating_system, fsys) ==
    /\ argv = options
    /\ platform = operating_system
    /\ fs = fsys
    /\ parameters = DefaultParameters
    /\ ports = <<>>
    /\ counters = InitialCounters
    /\ notifications = <<>>
    /\ log = InitialLog
    /\ pc = "_process_command_line"
    /\ status = Running
    /\ idx = 1
    /\ unresolvable_hostnames = <<>>
    /\ url_ok = <<>>
    /\ url_ko = <<>>
    /\ net = <<>>
    /\ calls = <<>>
    /\ called = {}
    /\ out = <<>>

\* an exception nothing catches: the interpreter prints the traceback and exits 1
Uncaught == pc' = "crashed" /\ status' = 1

\* main, line 918
ProcessCommandLine ==
    /\ pc = "_process_command_line"
    /\ LET r == ProcessOptions([parameters |-> parameters, log |-> log, exit |-> Running], argv)
       IN  /\ parameters' = r.parameters
           /\ log' = r.log
           /\ IF r.exit # Running
              THEN pc' = "exit" /\ status' = r.exit
              ELSE pc' = "load_freebsd_ports_dict" /\ status' = status
    /\ UNCHANGED <<inputs, ports, counters, notifications, out, www_locals, calls, called>>

\* main, lines 923-930
LoadFreebsdPortsDict ==
    /\ pc = "load_freebsd_ports_dict"
    /\ IF ~StartsWith(platform, "freebsd") \/ ~IsFile(fs, PortsIndex(platform))
       THEN /\ log' = [log EXCEPT !["critical"] = @ + 1]
            /\ pc' = "exit" /\ status' = 1
            /\ UNCHANGED <<ports, counters>>
       ELSE LET r == LoadLines([ports |-> <<>>, log |-> log],
                               ReadLines(fs, PortsIndex(platform)))
            IN  /\ ports' = r.ports
                /\ log' = r.log
                /\ counters' = [counters EXCEPT !["FreeBSD ports"] = Len(r.ports)]
                /\ pc' = "loaded" /\ status' = status
    /\ UNCHANGED <<inputs, parameters, notifications, out, www_locals, calls, called>>

\* main, lines 932-934
PrintCategories ==
    /\ pc = "loaded"
    /\ parameters["Show categories"]
    /\ out' = Append(out, [section |-> "categories", data |-> CategoryCounts(<<>>, ports)])
    /\ pc' = "exit" /\ status' = 0
    /\ UNCHANGED <<inputs, parameters, ports, counters, notifications, log, www_locals, calls,
                   called>>

\* main, lines 935-937
PrintMaintainers ==
    /\ pc = "loaded"
    /\ ~parameters["Show categories"] /\ parameters["Show maintainers"]
    /\ out' = Append(out, [section |-> "maintainers", data |-> MaintainerCounts(<<>>, ports)])
    /\ pc' = "exit" /\ status' = 0
    /\ UNCHANGED <<inputs, parameters, ports, counters, notifications, log, www_locals, calls,
                   called>>

\* main, line 939
FilterPortsCall ==
    /\ pc = "loaded"
    /\ ~parameters["Show categories"] /\ ~parameters["Show maintainers"]
    /\ LET r == filter_ports(ports, parameters["Categories"], parameters["Maintainers"],
                             parameters["Ports"])
       IN  /\ ports' = r.ports
           /\ IF r.raised
              THEN Uncaught /\ UNCHANGED counters
              ELSE /\ counters' = [counters EXCEPT !["Selected ports"] = Len(r.ports)]
                   /\ pc' = "update_with_makefiles" /\ status' = status
    /\ UNCHANGED <<inputs, parameters, notifications, log, out, www_locals, calls, called>>

\* the shared state after a step that gives s
Shared(s) ==
    /\ ports' = s.ports
    /\ counters' = s.counters
    /\ notifications' = s.notifications
    /\ log' = s.log
    /\ calls' = s.calls

\* main, line 942
UpdateWithMakefiles ==
    /\ pc = "update_with_makefiles"
    /\ Shared(update_with_makefiles(St, fs))
    /\ pc' = "check_port_path" /\ status' = status
    /\ UNCHANGED <<inputs, parameters, out, www_locals, called>>

\* one of the calls of main, lines 945-964 and 971-974: the check, then on to
\* the next statement
Check(check, next) ==
    /\ pc = check
    /\ LET s == CheckPorts(check, St, fs, parameters, ports)
       IN  /\ Shared(s)
           /\ IF s.raised THEN Uncaught ELSE pc' = next /\ status' = status
    /\ called' = called \cup {check}
    /\ UNCHANGED <<inputs, parameters, out, www_locals>>

CheckPortPathCall == Check("check_port_path", "check_installation_prefix")

CheckInstallationPrefixCall == Check("check_installation_prefix", "check_comment")

CheckCommentCall == Check("check_comment", "check_description_file")

CheckDescriptionFileCall == Check("check_description_file", "check_plist")

CheckPlistCall == Check("check_plist", "check_maintainer")

CheckMaintainerCall == Check("check_maintainer", "check_categories")

CheckCategoriesCall == Check("check_categories", "check_www_site")

FetchErrors == {
    "HTTP Error 404: Not Found", "HTTP Error 410: Gone", "HTTP Error 401: Unauthorized",
    "HTTP Error 451: Unavailable For Legal Reasons", "HTTP Error 301: Moved Permanently",
    "HTTP Error 308: Permanent Redirect", "HTTP Error 500: Internal Server Error",
    "<urlopen error [Errno 8] Name does not resolve>", "<urlopen error timed out>" }

\* main, line 968: one turn of the loop of check_www_site.  The resolver and
\* the server answer as they will.
CheckWwwSiteStep ==
    /\ pc = "check_www_site"
    /\ idx <= Len(ports)
    /\ \E resolves \in BOOLEAN, fetch_error \in {""} \cup FetchErrors :
        LET s == CheckWwwSite(St, ports[idx].name, ports[idx].port,
                              parameters["Checks"]["Hostnames"], parameters["Checks"]["URL"],
                              resolves, fetch_error)
        IN  /\ Shared(s)
            /\ unresolvable_hostnames' = s.unresolvable_hostnames
            /\ url_ok' = s.url_ok
            /\ url_ko' = s.url_ko
            /\ net' = s.net
            /\ IF s.raised
               THEN Uncaught /\ idx' = idx
               ELSE pc' = pc /\ status' = status /\ idx' = idx + 1
    /\ UNCHANGED <<inputs, parameters, out, called>>

\* main, line 968: the loop of check_www_site is over
CheckWwwSiteReturn ==
    /\ pc = "check_www_site"
    /\ idx > Len(ports)
    /\ pc' = "check_marks"
    /\ called' = called \cup {"check_www_site"}
    /\ UNCHANGED <<inputs, parameters, ports, counters, notifications, log, status, out,
                   www_locals, calls>>

CheckMarksCall == Check("check_marks", "check_static_ports")

CheckStaticPortsCall == Check("check_static_ports", "print_notifications")

\* main, line 977
PrintNotifications ==
    /\ pc = "print_notifications"
    /\ out' = Append(out, [section |-> "notifications", data |-> notifications])
    /\ pc' = "print_summary"
    /\ UNCHANGED <<inputs, parameters, ports, counters, notifications, log, status,
                   www_locals, calls, called>>

\* the counters print_summary prints a line for
SummaryLines == {c \in CounterNames \ {"FreeBSD ports", "Selected ports"} : counters[c] # 0}

\* main, lines 980-982
PrintSummary ==
    /\ pc = "print_summary"
    /\ out' = Append(out, [section |-> "summary",
                           data |-> [c \in SummaryLines \cup {"FreeBSD ports", "Selected ports"}
                                        |-> counters[c]]])
    /\ pc' = "exit" /\ status' = 0
    /\ UNCHANGED <<inputs, parameters, ports, counters, notifications, log, www_locals, calls,
                   called>>

Next ==
    \/ ProcessCommandLine
    \/ LoadFreebsdPortsDict
    \/ PrintCategories
    \/ PrintMaintainers
    \/ FilterPortsCall
    \/ UpdateWithMakefiles
    \/ CheckPortPathCall
    \/ CheckInstallationPrefixCall
    \/ CheckCommentCall
    \/ CheckDescriptionFileCall
    \/ CheckPlistCall
    \/ CheckMaintainerCall
    \/ CheckCategoriesCall
    \/ CheckWwwSiteStep
    \/ CheckWwwSiteReturn
    \/ CheckMarksCall
    \/ CheckStaticPortsCall
    \/ PrintNotifications
    \/ PrintSummary

(***************************************************************************)
(* Inputs: command lines, index files and ports trees                      *)
(***************************************************************************)
\* the sequences over S of length at most n
SeqsUpTo(S, n) == UNION {[1..k -> S] : k \in 0..n}

\* a line of the index: the 13 fields joined by '|'
IndexLine(name, path, prefix, comment, descr, maintainer, categories, www) ==
    Join("|", <<name, path, prefix, comment, descr, maintainer, categories, "", "", www,
                "", "", "">>)

File(lines, mtime) == [lines |-> lines, mtime |-> mtime]

FreeBSD == "freebsd14"

\* a ports tree: the index with these lines, the directories, the other files
Tree(index_lines, dirs, files) ==
    [dirs |-> dirs \cup {"/usr/ports"},
     files |-> (PortsIndex(FreeBSD) :> File(index_lines, Today)) @@ files,
     utc_offset |-> 0]

Scenario(options, operating_system, fsys) ==
    [argv |-> options, platform |-> operating_system, fs |-> fsys]

\* the process starts in one of the scenarios
StartIn(scenarios) == \E sc \in scenarios : Start(sc.argv, sc.platform, sc.fs)

NoFiles == [path \in {} |-> File(<<>>, Today)]

(***************************************************************************)
(* Spec: whole runs over small ports trees                                 *)
(***************************************************************************)
MaxPorts == 2

P1Path == "/usr/ports/devel/p1"

P2Path == "/usr/ports/www/p2"

P1Lines ==
    {IndexLine("p1-1.0", P1Path, "/usr/local", comment, P1Path \o "/pkg-descr", "A@x.org",
               "devel", www) :
        comment \in {"Tool", "", "too short"}, www \in {"", "http://a.org/"}}

P2Line ==
    IndexLine("p2-2.0", P2Path, "/opt", "Web thing.", P2Path \o "/pkg-descr", "b@x.org",
              "www foo", "http://b.org/")

\* what the tree holds for p1: nothing; the directory without a Makefile,
\* without and with a description file; the directory with a Makefile and a
\* description file
P1Trees ==
    { [dirs |-> {}, files |-> NoFiles],
      [dirs |-> {P1Path}, files |-> NoFiles],
      [dirs |-> {P1Path},
       files |-> (P1Path \o "/pkg-descr" :>
                    File(<<"A tool that does many things", "for everybody">>,
                         -200 * HoursPerDay))],
      [dirs |-> {P1Path},
       files |-> (P1Path \o "/Makefile" :>
                    File(<<"PORTNAME= p1", "COMMENT=\tTool # short", "BROKEN= yes">>,
                         -200 * HoursPerDay))
                 @@ (P1Path \o "/pkg-descr" :>
                        File(<<"Tool", "https://a.org/">>, -200 * HoursPerDay))] }

RunScenarios ==
    { Scenario(options, FreeBSD, Tree(index_lines, t.dirs, t.files)) :
        options \in {<<>>, <<<<"-h", "">>>>, <<<<"-m", "A@x.org">>>>},
        index_lines \in SeqsUpTo(P1Lines \cup {P2Line}, MaxPorts),
        t \in P1Trees }

\* the runs that end before the checks
ShortScenarios ==
    { Scenario(options, FreeBSD, Tree(<<P2Line>>, {}, NoFiles)) :
        options \in {<<<<"-C", "">>>>, <<<<"--show-mnt", "">>>>, <<<<"-C", "">>, <<"-M", "">>>>,
                     <<<<"--help", "">>>>, <<<<"--plist", "2">>>>} }
    \cup { Scenario(<<>>, "linux", Tree(<<P2Line>>, {}, NoFiles)),
           Scenario(<<>>, "freebsd13", Tree(<<P2Line>>, {}, NoFiles)) }

Init == StartIn(RunScenarios \cup ShortScenarios)

Spec == Init /\ [][Next]_vars

(***************************************************************************)
(* SpecNotify: notify_maintainer called with any arguments, in any order   *)
(***************************************************************************)
MaxCalls == 3

NotifyArguments == {"a@x.org", "b@x.org"} \X {"Empty www-site", "Too long comments"}
                       \X {"p1-1.0", "p2-2.0"}

InitNotify ==
    /\ argv = <<>> /\ platform = FreeBSD /\ fs = Tree(<<>>, {}, NoFiles)
    /\ parameters = DefaultParameters
    /\ ports = <<>>
    /\ counters = InitialCounters
    /\ notifications = <<>>
    /\ log = InitialLog
    /\ pc = "notify_maintainer"
    /\ status = Running
    /\ out = <<>>
    /\ idx = 1
    /\ unresolvable_hostnames = <<>>
    /\ url_ok = <<>>
    /\ url_ko = <<>>
    /\ net = <<>>
    /\ calls = <<>>
    /\ called = {}

\* a caller notifies a maintainer
NotifyCall ==
    /\ pc = "notify_maintainer"
    /\ Len(calls) < MaxCalls
    /\ \E a \in NotifyArguments :
        /\ notifications' = notify_maintainer(notifications, a[1], a[2], a[3])
        /\ calls' = Append(calls, a)
    /\ UNCHANGED <<inputs, parameters, ports, counters, log, pc, status, out, www_locals,
                   called>>

NextNotify == NotifyCall

SpecNotify == InitNotify /\ [][NextNotify]_vars

(***************************************************************************)
(* SpecLoad: whole runs over index files with malformed and repeated lines *)
(***************************************************************************)
MaxIndexLines == 3

P1Line ==
    IndexLine("p1-1.0", P1Path, "/usr/local", "Tool", P1Path \o "/pkg-descr", "A@x.org",
              "devel", "")

\* the identifier of P1Line again, every other field different
P1Again ==
    IndexLine("p1-1.0", "/usr/ports/misc/p1", "/opt", "Other tool", "/nonexistent", "C@x.org",
              "misc", "http://c.org/")

IndexLines ==
    { P1Line, P1Again, P2Line,
      "p3-1.0|/usr/ports/devel/p3|/usr/local",  \* 3 fields
      P1Line \o "|",                            \* 14 fields
      "" }                                      \* 1 field

LoadScenarios ==
    { Scenario(<<>>, FreeBSD, Tree(index_lines, {}, NoFiles)) :
        index_lines \in SeqsUpTo(IndexLines, MaxIndexLines) }

InitLoad == StartIn(LoadScenarios \cup ShortScenarios)

SpecLoad == InitLoad /\ [][Next]_vars

(***************************************************************************)
(* SpecNet: whole runs with the hostname and URL checks enabled            *)
(***************************************************************************)
MaxSites == 2

Sites == {"", "http://a.org/", "https://a.org/doc", "http://b.org:8080/x", "a.org"}

SiteMaintainers == <<"a@x.org", "b@x.org", "c@x.org", "d@x.org">>

SiteNames == <<"s1-1.0", "s2-1.0", "s3-1.0", "s4-1.0">>

\* the k-th line of the index: a port of its own maintainer, with this site
SiteLine(k, www) ==
    IndexLine(SiteNames[k], "/usr/ports/net/" \o SiteNames[k], "/usr/local", "Tool",
              "/usr/ports/net/" \o SiteNames[k] \o "/pkg-descr", SiteMaintainers[k], "net", www)

NetScenarios ==
    { Scenario(options, FreeBSD, Tree([k \in 1..Len(sites) |-> SiteLine(k, sites[k])],
                                      {}, NoFiles)) :
        options \in {<<<<"-u", "">>>>, <<<<"--check-host", "">>>>},
        sites \in SeqsUpTo(Sites, MaxSites) }

InitNet == StartIn(NetScenarios \cup ShortScenarios)

SpecNet == InitNet /\ [][Next]_vars

(***************************************************************************)
(* SpecLimits: whole runs with thresholds given on the command line        *)
(***************************************************************************)
LimitOptions ==
    { <<>>,
      <<<<"--plist", "3">>>>, <<<<"--plist", "9">>>>, <<<<"--plist", "9">>, <<"--plist", "3">>>>,
      <<<<"--broken", "30">>>>, <<<<"--broken", "1000">>>>,
      <<<<"--forbidden", "30">>>>, <<<<"--deprecated", "30">>>>,
      <<<<"--unchanged", "30">>>> }

\* the day the Makefile was last modified
ModificationDays == {-40, -100, -200, -1200}

\* a Makefile with a file list of 3 or of 8 entries, and the three marks
MarkedMakefiles ==
    { File(<<plist_files, "BROKEN=\tdoes not build", "FORBIDDEN=\tvulnerable",
             "DEPRECATED=\tabandoned">>, mtime * HoursPerDay) :
        plist_files \in {"PLIST_FILES=\tbin/a bin/b bin/c",
                         "PLIST_FILES=\tbin/a bin/b bin/c bin/d bin/e bin/f bin/g bin/h"},
        mtime \in ModificationDays }

LimitScenarios ==
    { Scenario(options, FreeBSD,
               Tree(<<P1Line>>, {P1Path}, P1Path \o "/Makefile" :> makefile)) :
        options \in LimitOptions, makefile \in MarkedMakefiles }

InitLimits == StartIn(LimitScenarios \cup ShortScenarios)

SpecLimits == InitLimits /\ [][Next]_vars

(***************************************************************************)
(* SpecRecipe: whole runs over two ports with Makefiles; the Makefile of   *)
(* the first varies, the Makefile of the second diverges from the index in *)
(* its four cross-checked variables                                        *)
(***************************************************************************)
MaxMakefileLines == 2

R1Path == "/usr/ports/devel/r1"

R2Path == "/usr/ports/www/r2"

R1Line ==
    IndexLine("r1-1.0", R1Path, "/usr/local", "Tool", R1Path \o "/pkg-descr", "A@x.org",
              "devel", "http://a.org/")

R2Line ==
    IndexLine("r2-1.0", R2Path, "/usr/local", "Other", R2Path \o "/pkg-descr", "b@x.org",
              "www", "http://b.org/")

\* a line that ends with a backslash: the next one continues it
ContinuedLine == "COMMENT=\tOther thing \\"

RecipeLines ==
    { "COMMENT=\tTool", "COMMENT=\t${PORTNAME} tool", ContinuedLine,
      "MAINTAINER=\t${USER}@x.org", "MAINTAINER=\tC@x.org # new", "MAINTAINER=\ta@X.org",
      "CATEGORIES=\tdevel ${EXTRA}", "CATEGORIES=\twww",
      "WWW=\thttp://a.org/${PORTNAME}", "WWW=\thttp://c.org/",
      "comment=overwritten" }

R2Makefile ==
    <<"COMMENT=\tDifferent", "MAINTAINER=\tc@x.org", "CATEGORIES=\tnet", "WWW=\thttp://c.org/">>

RecipeScenarios ==
    { Scenario(<<>>, FreeBSD,
               Tree(<<R1Line, R2Line>>, {R1Path, R2Path},
                    (R1Path \o "/Makefile" :> File(lines, -10 * HoursPerDay))
                    @@ (R2Path \o "/Makefile" :> File(R2Makefile, -10 * HoursPerDay)))) :
        lines \in SeqsUpTo(RecipeLines, MaxMakefileLines) }

InitRecipe == StartIn(RecipeScenarios \cup ShortScenarios)

SpecRecipe == InitRecipe /\ [][Next]_vars

(***************************************************************************)
(* SpecFields: whole runs over an index of two records, the first with a   *)
(* varying identifier, installation prefix and category list               *)
(***************************************************************************)
FieldNames ==
    { "f1-1.0", "linux-c7-1.0", "gcc-aarch64-none-1.0", "android-droid-1.0", "qmail-1.0",
      "queue-fix-1.0", "global-tz-2024", "zoneinfo-2024" }

FieldPrefixes ==
    { "/usr/local", "/opt", "/compat/linux", "/usr/local/FreeBSD_ARM64",
      "/usr/local/android-sdk", "/var/qmail", "/usr" }

FieldCategories == {"foo devel foo", "bar", "devel www", "Devel"}

FieldLine(name, prefix, categories) ==
    IndexLine(name, "/usr/ports/devel/f1", prefix, "Tool", "/usr/ports/devel/f1/pkg-descr",
              "A@x.org", categories, "http://a.org/")

FieldScenarios ==
    { Scenario(<<>>, FreeBSD, Tree(<<line, P2Line>>, {}, NoFiles)) :
        line \in {FieldLine(name, prefix, "devel") : name \in FieldNames,
                                                     prefix \in FieldPrefixes}
                 \cup {FieldLine("f1-1.0", "/usr/local", categories) :
                        categories \in FieldCategories} }

InitFields == StartIn(FieldScenarios \cup ShortScenarios)

SpecFields == InitFields /\ [][Next]_vars

(***************************************************************************)
(* SpecMarks: whole runs over one port whose Makefile has some of the four *)
(* marks and was modified about a threshold ago, on hosts of three zones   *)
(***************************************************************************)
\* the same tree on a host whose local time is offset hours east of UTC
InZone(fsys, offset) == [fsys EXCEPT !.utc_offset = offset]

UtcOffsets == {-5, 0, 2}

MarkLines ==
    <<"BROKEN=\t\tdoes not build", "IGNORE=\t\tnot for this architecture",
      "FORBIDDEN=\tvulnerable", "DEPRECATED=\tabandoned">>

\* the lines of MarkLines whose number is in the set, in order
RECURSIVE MarksOf(_, _)
MarksOf(chosen, n) ==
    IF n = 0 THEN <<>>
    ELSE IF n \in chosen THEN Append(MarksOf(chosen, n - 1), MarkLines[n])
    ELSE MarksOf(chosen, n - 1)

\* an hour more and an hour less than 180 days ago, an hour more than 90 days
\* ago, 90 days ago to the hour, and yesterday
MarkTimes ==
    { -(180 * HoursPerDay) - 1, -(180 * HoursPerDay) + 1, -(90 * HoursPerDay) - 1,
      -(90 * HoursPerDay), -HoursPerDay }

MarkScenarios ==
    { Scenario(<<>>, FreeBSD,
               InZone(Tree(<<P1Line>>, {P1Path},
                           P1Path \o "/Makefile" :> File(MarksOf(chosen, Len(MarkLines)), mtime)),
                      offset)) :
        chosen \in SUBSET (1..Len(MarkLines)), mtime \in MarkTimes, offset \in UtcOffsets }

InitMarks == StartIn(MarkScenarios \cup ShortScenarios)

SpecMarks == InitMarks /\ [][Next]_vars

(***************************************************************************)
(* SpecFilter: whole runs with the -m, -c and -p filters over an index of  *)
(* a few records                                                           *)
(***************************************************************************)
MaxFilterRecords == 2

FilterLine(name, path, maintainer, categories) ==
    IndexLine(name, path, "/usr/local", "Tool", path \o "/pkg-descr", maintainer, categories,
              "http://a.org/")

FilterLines ==
    { FilterLine("a-1.0", "/usr/ports/devel/a", "A@x.org", "devel lang"),
      FilterLine("b-1.0", "/usr/ports/www/b", "b@x.org", "www devel"),
      FilterLine("c-1.0", "/usr/ports/devel/c", "a@x.org", "net"),
      FilterLine("my port-1.0", "/usr/ports/misc/myport", "a@x.org", "misc") }

\* the options of a run: none or one value for each of the three filters
FilterOptions ==
    { m \o c \o p :
        m \in {<<>>, <<<<"-m", "a@x.org">>>>, <<<<"--mnt", "A@x.org,b@x.org">>>>},
        c \in {<<>>, <<<<"-c", "devel">>>>, <<<<"--cat", "net,www">>>>},
        p \in {<<>>, <<<<"-p", "a">>>>, <<<<"--port", "b,c">>>>} }

FilterScenarios ==
    { Scenario(options, FreeBSD, Tree(index_lines, {}, NoFiles)) :
        options \in FilterOptions, index_lines \in SeqsUpTo(FilterLines, MaxFilterRecords) }

InitFilter == StartIn(FilterScenarios \cup ShortScenarios)

SpecFilter == InitFilter /\ [][Next]_vars

(***************************************************************************)
(* SpecModes: whole runs with any sequence of summary-mode options, over   *)
(* an index of two records that the checks have findings for               *)
(***************************************************************************)
MaxModeOptions == 3

ModeOptions == {<<"-C", "">>, <<"-M", "">>, <<"--show-cat", "">>, <<"--show-mnt", "">>}

ModeScenarios ==
    { Scenario(options, FreeBSD, Tree(<<FieldLine("f1-1.0", "/opt", "foo")>> \o <<P2Line>>,
                                      {}, NoFiles)) :
        options \in SeqsUpTo(ModeOptions, MaxModeOptions) }

InitModes == StartIn(ModeScenarios \cup ShortScenarios)

SpecModes == InitModes /\ [][Next]_vars

(***************************************************************************)
(* SpecLexer: whole runs over one port whose Makefile varies in its        *)
(* continued lines, blank lines and comments                               *)
(***************************************************************************)
MaxLexerLines == 3

L1Path == "/usr/ports/devel/l1"

L1Line ==
    IndexLine("l1-1.0", L1Path, "/usr/local", "foo", L1Path \o "/pkg-descr", "a@x.org",
              "devel", "http://a.org/")

ContinuationLines ==
    {"COMMENT=foo \\", "\tbar \\", "bar # note", "", "# note", "WWW=\thttp://a.org/"}

StrippingLines ==
    { "COMMENT=foo", "  COMMENT=foo bar \t", "COMMENT=foo # note", "COMMENT=foo#note # more",
      "COMMENT=C\\# lib", "COMMENT=C\\# lib \t# note", "COMMENT=a² b",
      "COMMENT=a² C\\# lib # note" }

LexerScenarios ==
    { Scenario(<<>>, FreeBSD,
               Tree(<<L1Line>>, {L1Path},
                    L1Path \o "/Makefile" :> File(lines, -10 * HoursPerDay))) :
        lines \in SeqsUpTo(ContinuationLines, MaxLexerLines)
                    \cup {<<line>> : line \in StrippingLines} }

InitLexer == StartIn(LexerScenarios \cup ShortScenarios)

SpecLexer == InitLexer /\ [][Next]_vars

(***************************************************************************)
(* SpecDescr: whole runs over one port whose description file varies       *)
(***************************************************************************)
MaxDescrLines == 3

D1Path == "/usr/ports/devel/d1"

D1Line ==
    IndexLine("d1-1.0", D1Path, "/usr/local", "Tool", D1Path \o "/pkg-descr", "a@x.org",
              "devel", "http://a.org/")

DescrLines == {"Tool", "A long description of the tool", "https://a.org/", " http://a.org/x", ""}

DescrScenarios ==
    { Scenario(<<>>, FreeBSD,
               Tree(<<D1Line>>, {D1Path},
                    D1Path \o "/pkg-descr" :> File(lines, -10 * HoursPerDay))) :
        lines \in SeqsUpTo(DescrLines, MaxDescrLines) }

InitDescr == StartIn(DescrScenarios \cup ShortScenarios)

SpecDescr == InitDescr /\ [][Next]_vars

(***************************************************************************)
(* SpecOrder: main with its ten checks called in any order, over the same  *)
(* records and the same environment                                        *)
(***************************************************************************)
\* the checks in the order of main, lines 945-974
MainOrder ==
    <<"check_port_path", "check_installation_prefix", "check_comment",
      "check_description_file", "check_plist", "check_maintainer", "check_categories",
      "check_www_site", "check_marks", "check_static_ports">>

Checks == {MainOrder[i] : i \in 1..Len(MainOrder)}

\* the environment: the hostnames that resolve
Resolvable == {"a.org", "c.org"}

\* check_www_site over all the ports, in that environment
RECURSIVE CheckWwwSites(_, _, _)
CheckWwwSites(st, params, ps) ==
    IF ps = <<>> \/ st.raised THEN st
    ELSE CheckWwwSites(CheckWwwSite(st, ps[1].name, ps[1].port, params["Checks"]["Hostnames"],
                                    params["Checks"]["URL"],
                                    Hostname(ps[1].port["www-site"]) \in Resolvable, ""),
                       params, Tail(ps))

\* one call of a check, whichever
RunCheck(check, st, fsys, params) ==
    IF check = "check_www_site" THEN CheckWwwSites(st, params, st.ports)
    ELSE CheckPorts(check, st, fsys, params, st.ports)

\* the checks called one after the other; the first exception ends the run
RECURSIVE RunChecks(_, _, _, _)
RunChecks(order, st, fsys, params) ==
    IF order = <<>> \/ st.raised THEN st
    ELSE RunChecks(Tail(order), RunCheck(order[1], st, fsys, params), fsys, params)

\* main, line 942, before checks in any order
UpdateBeforeChecks ==
    /\ pc = "update_with_makefiles"
    /\ Shared(update_with_makefiles(St, fs))
    /\ pc' = "checks" /\ status' = status
    /\ UNCHANGED <<inputs, parameters, out, www_locals, called>>

\* main, lines 945-974, permuted: any check not called yet is called
PermutedCheck ==
    /\ pc = "checks"
    /\ \E check \in Checks \ called :
        LET s == RunCheck(check, St, fs, parameters)
        IN  /\ ports' = s.ports
            /\ counters' = s.counters
            /\ notifications' = s.notifications
            /\ log' = s.log
            /\ unresolvable_hostnames' = s.unresolvable_hostnames
            /\ url_ok' = s.url_ok
            /\ url_ko' = s.url_ko
            /\ net' = s.net
            /\ called' = called \cup {check}
            /\ IF s.raised THEN Uncaught
               ELSE /\ pc' = IF called' = Checks THEN "print_notifications" ELSE "checks"
                    /\ status' = status
    /\ UNCHANGED <<inputs, parameters, out, idx, calls>>

O1Path == "/usr/ports/devel/o1"

O2Path == "/usr/ports/www/o2"

O3Path == "/usr/ports/misc/o3"

\* a port every check but check_port_path has a finding for
O1Line ==
    IndexLine("o1-1.0", O1Path, "/opt", "tool.", O1Path \o "/pkg-descr", "a@x.org",
              "devel foo", "")

\* a port without directory, whose hostname does not resolve
O2Line ==
    IndexLine("o2-1.0", O2Path, "/usr/local", "Thing", O2Path \o "/pkg-descr", "b@x.org",
              "www", "http://b.org/x")

\* a port with an empty comment
O3Line ==
    IndexLine("o3-1.0", O3Path, "/usr/local", "", O3Path \o "/pkg-descr", "c@x.org",
              "misc", "http://a.org/")

O1Files ==
    (O1Path \o "/Makefile" :>
        File(<<"COMMENT=Other", "MAINTAINER=b@x.org", "CATEGORIES=net", "WWW=http://c.org/",
               "BROKEN=yes", "PLIST_FILES=a b c d e f g">>, -1100 * HoursPerDay))
    @@ (O1Path \o "/pkg-descr" :> File(<<"tool.", "https://a.org/">>, -1100 * HoursPerDay))

OrderScenarios ==
    { Scenario(sc[1], FreeBSD, Tree(sc[2], {O1Path}, O1Files)) :
        sc \in { <<<<>>, <<O1Line, O2Line>>>>,
                 <<<<<<"-h", "">>>>, <<O1Line, O2Line>>>>,
                 <<<<<<"-h", "">>>>, <<O2Line, O1Line>>>>,
                 <<<<>>, <<O1Line, O3Line>>>> } }

InitOrder == StartIn(OrderScenarios)

NextOrder ==
    \/ ProcessCommandLine
    \/ LoadFreebsdPortsDict
    \/ FilterPortsCall
    \/ UpdateBeforeChecks
    \/ PermutedCheck
    \/ PrintNotifications
    \/ PrintSummary

SpecOrder == InitOrder /\ [][NextOrder]_vars

(***************************************************************************)
(* SpecSelect: whole runs with and without a filter over an index whose    *)
(* identifiers may hold a blank, the directories missing                   *)
(***************************************************************************)
MaxSelectRecords == 3

SelectLines ==
    { FilterLine("my", "/usr/ports/misc/my", "a@x.org", "misc"),
      FilterLine("port-1.0", "/usr/ports/misc/port", "a@x.org", "misc"),
      IndexLine("my port-1.0", "/usr/ports/misc/myport", "/opt", "Tool",
                "/usr/ports/misc/myport/pkg-descr", "b@x.org", "misc", ""),
      IndexLine("b-1.0", "/usr/ports/www/b", "/opt", "Tool", "/usr/ports/www/b/pkg-descr",
                "b@x.org", "www", "") }

SelectScenarios ==
    { Scenario(options, FreeBSD, Tree(index_lines, {}, NoFiles)) :
        options \in {<<>>, <<<<"-m", "a@x.org">>>>, <<<<"-c", "www">>>>},
        index_lines \in SeqsUpTo(SelectLines, MaxSelectRecords) }

InitSelect == StartIn(SelectScenarios \cup ShortScenarios)

SpecSelect == InitSelect /\ [][Next]_vars

(***************************************************************************)
(* Properties                                                              *)
(***************************************************************************)
\* the number of times x occurs in a list
Occurrences(list, x) == Cardinality({k \in 1..Len(list) : list[k] = x})

\* C1: notify_maintainer is idempotent.  From every ledger reached by any
\* sequence of calls, and for every (maintainer, issue-kind, package id),
\* calling notify_maintainer a second time with the same arguments gives the
\* ledger the first call gave; and every package id notified so far occurs
\* exactly once in the list stored for its maintainer and issue-kind.
C1_NotifyIdempotent ==
    /\ \A a \in NotifyArguments :
        LET once == notify_maintainer(notifications, a[1], a[2], a[3])
        IN  notify_maintainer(once, a[1], a[2], a[3]) = once
    /\ \A k \in 1..Len(calls) :
        /\ calls[k][1] \in DOMAIN notifications
        /\ calls[k][2] \in DOMAIN notifications[calls[k][1]]
        /\ Occurrences(notifications[calls[k][1]][calls[k][2]], calls[k][3]) = 1

\* the same arguments have been notified twice, after another package id was
\* stored in the same list
C1_Witness ==
    /\ pc = "notify_maintainer"
    /\ \E i, j \in 1..Len(calls) :
        /\ i < j
        /\ calls[i] = calls[j]
        /\ Len(notifications[calls[i][1]][calls[i][2]]) = 2

\* C2: checks are isolated per record.  No exception raised while a check
\* processes a record ends the run: the run never stops with a traceback and
\* status 1 before the remaining records, the following checks and the two
\* reports.
C2_ChecksIsolated == pc # "crashed"

\* the records check_www_site is done with
Processed == idx - 1

\* the site, the maintainer and the identifier of the k-th record
WwwOf(k) == ports[k].port["www-site"]

MaintainerOf(k) == ports[k].port["maintainer"]

NameOf(k) == ports[k].name

\* the network calls made for the k-th record
NetCallsOf(k) == {e \in DOMAIN net : net[e].port = NameOf(k)}

\* the resolver was called for the k-th record and returned an address
Resolved(k) == \E e \in NetCallsOf(k) : net[e].op = "resolve" /\ net[e].ok

\* the resolver was called for the k-th record and failed
FailedToResolve(k) == \E e \in NetCallsOf(k) : net[e].op = "resolve" /\ ~net[e].ok

\* the live fetches of a URL
Fetches(url) == {e \in DOMAIN net : net[e].op = "fetch" /\ net[e].key = url}

\* str() of an urllib HTTPError is "HTTP Error <code>: <message>"
IsHttpError(error) == Sub(error, 1, 11) = "HTTP Error "

HttpCode(error) == Sub(error, 12, 14)

NameDoesNotResolve == "<urlopen error [Errno 8] Name does not resolve>"

\* the notification kind of each inaccessible HTTP code
InaccessibleKind ==
    [code \in {"404", "410", "401", "451"} |->
        CASE code = "404" -> "HTTP Error 404 (Not found) on www-site"
          [] code = "410" -> "HTTP Error 410 (Gone) on www-site"
          [] code = "401" -> "HTTP Error 401 (Unauthorized) on www-site"
          [] code = "451" -> "HTTP Error 451 (Unavailable for legal reasons) on www-site"]

Inaccessible(error) == IsHttpError(error) /\ HttpCode(error) \in DOMAIN InaccessibleKind

\* the failure stored for the site of the k-th record is an inaccessible one
StoredInaccessible(k) ==
    /\ WwwOf(k) \in DOMAIN url_ko
    /\ Inaccessible(url_ko[WwwOf(k)])

\* the ledger lists the port under this kind for this maintainer
Notified(notif, maintainer, kind, port) ==
    /\ maintainer \in DOMAIN notif
    /\ kind \in DOMAIN notif[maintainer]
    /\ InList(port, notif[maintainer][kind])

\* C3: with hostname and URL checking enabled, two records with the same site
\* URL whose hostname resolved for both cause exactly one live fetch of that
\* URL, none of it for the later record; when the stored failure is HTTP 404,
\* 410, 401 or 451 both are notified to their maintainer, and 'Unaccessible
\* www-site' counts one for each record served such a failure.
C3_UrlMemoization ==
    /\ \A i, j \in 1..Processed :
        (/\ i < j
         /\ parameters["Checks"]["Hostnames"] /\ parameters["Checks"]["URL"]
         /\ WwwOf(i) = WwwOf(j)
         /\ Resolved(i) /\ Resolved(j))
        => /\ Cardinality(Fetches(WwwOf(i))) = 1
           /\ \A e \in NetCallsOf(j) : net[e].op # "fetch"
           /\ InList(WwwOf(i), url_ok) \/ WwwOf(i) \in DOMAIN url_ko
           /\ StoredInaccessible(i) =>
                \A k \in {i, j} :
                    Notified(notifications, MaintainerOf(k),
                             InaccessibleKind[HttpCode(url_ko[WwwOf(k)])], NameOf(k))
    /\ counters["Unaccessible www-site"] =
            Cardinality({k \in 1..Processed : Resolved(k) /\ StoredInaccessible(k)})

\* two records of different maintainers share a URL that was fetched once and
\* answered 404: both are notified and counted
C3_Witness ==
    /\ Processed = 2
    /\ WwwOf(1) = WwwOf(2)
    /\ Resolved(1) /\ Resolved(2)
    /\ Cardinality(Fetches(WwwOf(1))) = 1
    /\ WwwOf(1) \in DOMAIN url_ko
    /\ url_ko[WwwOf(1)] = "HTTP Error 404: Not Found"
    /\ counters["Unaccessible www-site"] = 2
    /\ Notified(notifications, MaintainerOf(2), InaccessibleKind["404"], NameOf(2))

\* C4, as stated: no hostname is passed to the resolver more than once and no
\* URL is fetched more than once, whatever the outcomes.
C4_OneCallPerKey ==
    \A a, b \in DOMAIN net :
        a < b => ~(net[a].op = net[b].op /\ net[a].key = net[b].key)

\* C4, amended: no URL is fetched more than once and no hostname is passed to
\* the resolver again after it failed to resolve; a hostname that resolved is
\* passed to the resolver again, once for each later record that carries it.
C4_OneCallPerUrlAndFailedHost ==
    \A a, b \in DOMAIN net :
        (a < b /\ net[a].op = net[b].op /\ net[a].key = net[b].key)
            => /\ net[a].op = "resolve"
               /\ net[a].ok
               /\ net[a].port # net[b].port

\* a hostname was resolved twice, for two records with the same URL, which was
\* fetched once
C4_Witness ==
    /\ Processed = 2
    /\ \E a, b \in DOMAIN net :
        /\ a < b
        /\ net[a].op = "resolve" /\ net[b].op = "resolve"
        /\ net[a].key = net[b].key
        /\ net[a].ok /\ net[b].ok
    /\ WwwOf(1) = WwwOf(2)
    /\ Cardinality(Fetches(WwwOf(1))) = 1
    /\ InList(WwwOf(1), url_ok)

\* the records that were found unresolvable: by the resolver or the negative
\* cache, or by a fetch that failed with 'name does not resolve'
FoundUnresolvable ==
    {k \in 1..Processed :
        /\ WwwOf(k) # ""
        /\ parameters["Checks"]["Hostnames"]
        /\ \/ ~Resolved(k)
           \/ WwwOf(k) \in DOMAIN url_ko /\ url_ko[WwwOf(k)] = NameDoesNotResolve}

\* C5: once a hostname failed to resolve for a record, a later record with the
\* same extracted hostname causes no resolver call and no fetch, is counted
\* under 'Unresolvable www-site' and notified to its own maintainer, and the
\* hostname is in the negative cache exactly once.
C5_NegativeHostnameCache ==
    /\ \A i, j \in 1..Processed :
        (/\ i < j
         /\ WwwOf(i) # "" /\ WwwOf(j) # ""
         /\ Hostname(WwwOf(i)) = Hostname(WwwOf(j))
         /\ FailedToResolve(i))
        => /\ NetCallsOf(j) = {}
           /\ Notified(notifications, MaintainerOf(j), "Unresolvable www-site", NameOf(j))
           /\ Occurrences(unresolvable_hostnames, Hostname(WwwOf(i))) = 1
    /\ counters["Unresolvable www-site"] = Cardinality(FoundUnresolvable)

\* two records with different URLs on one host: the resolver failed for the
\* first, the second was served from the negative cache
C5_Witness ==
    /\ Processed = 2
    /\ WwwOf(1) # WwwOf(2)
    /\ WwwOf(1) # "" /\ WwwOf(2) # ""
    /\ Hostname(WwwOf(1)) = Hostname(WwwOf(2))
    /\ FailedToResolve(1)
    /\ Len(net) = 1
    /\ counters["Unresolvable www-site"] = 2
    /\ Notified(notifications, MaintainerOf(2), "Unresolvable www-site", NameOf(2))

\* the entries of the ledger, but for the cross-check of the same loop body
LedgerEntries(notif) ==
    {t \in UNION {UNION {{<<m, kind, notif[m][kind][n]>> : n \in 1..Len(notif[m][kind])} :
                            kind \in DOMAIN notif[m]} : m \in DOMAIN notif} :
        t[2] # "Diverging www-site"}

\* the counters, but for the cross-check of the same loop body
SiteCounters(c) == [c EXCEPT !["Diverging www-site"] = 0]

\* a record was processed whose hostname resolved and whose URL has a stored
\* failure: fetched just now, or replayed
FailureApplied ==
    /\ pc = "check_www_site"
    /\ idx' = idx + 1
    /\ \E e \in DOMAIN net' :
        /\ e > Len(net)
        /\ net'[e] = NetCall("resolve", Hostname(WwwOf(idx)), NameOf(idx), TRUE)
    /\ WwwOf(idx) \in DOMAIN url_ko'

\* what C6 says of the step that applies a failure
ClassifiedAsClaimed ==
    LET error == url_ko'[WwwOf(idx)]
        same_ledger == LedgerEntries(notifications') = LedgerEntries(notifications)
    IN  IF Inaccessible(error)
        THEN /\ SiteCounters(counters') =
                    SiteCounters([counters EXCEPT !["Unaccessible www-site"] = @ + 1])
             /\ LedgerEntries(notifications') =
                    LedgerEntries(notifications)
                        \cup {<<MaintainerOf(idx), InaccessibleKind[HttpCode(error)], NameOf(idx)>>}
        ELSE IF IsHttpError(error)
        THEN SiteCounters(counters') = SiteCounters(counters) /\ same_ledger
        ELSE IF error = NameDoesNotResolve
        THEN SiteCounters(counters') =
                SiteCounters([counters EXCEPT !["Unresolvable www-site"] = @ + 1])
        ELSE SiteCounters(counters') = SiteCounters(counters) /\ same_ledger

\* C6: a fetch failure, live or replayed from url_ko, is classified the same
\* way: HTTP 404, 410, 401 and 451 notify the maintainer and add one to
\* 'Unaccessible www-site'; 301, 308 and every other HTTP code change no counter
\* and no ledger entry; 'name does not resolve' adds one to 'Unresolvable
\* www-site' and nothing to 'Unaccessible www-site'; any other transport error
\* changes neither counters nor ledger.
C6_FetchErrorClasses == [][FailureApplied => ClassifiedAsClaimed]_vars

\* two records: one site answered 410, the fetch of the other failed with
\* 'name does not resolve' after its hostname had resolved
C6_Witness ==
    /\ Processed = 2
    /\ unresolvable_hostnames = <<>>
    /\ WwwOf(1) \in DOMAIN url_ko /\ url_ko[WwwOf(1)] = "HTTP Error 410: Gone"
    /\ WwwOf(2) \in DOMAIN url_ko /\ url_ko[WwwOf(2)] = NameDoesNotResolve
    /\ counters["Unaccessible www-site"] = 1
    /\ counters["Unresolvable www-site"] = 1

\* the threshold the command line configures: the argument of the last
\* occurrence of the option, and the default without one
RECURSIVE ConfiguredLimit(_, _, _)
ConfiguredLimit(options, option, default) ==
    IF options = <<>> THEN default
    ELSE IF options[Len(options)][1] = option THEN ParseInt(options[Len(options)][2])
    ELSE ConfiguredLimit(SubSeq(options, 1, Len(options) - 1), option, default)

\* the record has the mark and its Makefile is older than the configured window
MarkedTooLong(k, mark, option, default) ==
    /\ mark \in DOMAIN ports[k].port
    /\ ports[k].port["Last modification"]
            < Today - ConfiguredLimit(argv, option, default) * HoursPerDay

\* C8: a threshold given by --plist, --broken, --forbidden, --deprecated or
\* --unchanged and accepted is the value the check compares against: after the
\* checks, a record is reported for PLIST_FILES abuse, for a mark kept too long
\* or for being unchanged exactly when it reaches the configured threshold.
C8_ConfiguredLimitsUsed ==
    pc = "print_notifications" =>
        \A k \in 1..Len(ports) :
            ("PLIST_FILES" \in DOMAIN ports[k].port /\ "Last modification" \in DOMAIN ports[k].port)
            => /\ Notified(notifications, MaintainerOf(k), "PLIST_FILES abuse", NameOf(k))
                    <=> Len(Split(ports[k].port["PLIST_FILES"]))
                            >= ConfiguredLimit(argv, "--plist", 7)
               /\ Notified(notifications, MaintainerOf(k), "Marked as BROKEN for too long",
                           NameOf(k))
                    <=> MarkedTooLong(k, "BROKEN", "--broken", 180)
               /\ Notified(notifications, MaintainerOf(k), "Marked as FORBIDDEN for too long",
                           NameOf(k))
                    <=> MarkedTooLong(k, "FORBIDDEN", "--forbidden", 90)
               /\ Notified(notifications, MaintainerOf(k), "Marked as DEPRECATED for too long",
                           NameOf(k))
                    <=> MarkedTooLong(k, "DEPRECATED", "--deprecated", 180)
               /\ Notified(notifications, MaintainerOf(k), "Unchanged for a long time",
                           NameOf(k))
                    <=> ports[k].port["Last modification"]
                            < Today - ConfiguredLimit(argv, "--unchanged", 1095) * HoursPerDay

\* the lines of the index file
IndexFileLines == ReadLines(fs, PortsIndex(platform))

\* line k of the index has 13 fields and no earlier 13-field line has its
\* identifier
FirstOfItsName(k) ==
    /\ Len(SplitOn(IndexFileLines[k], "|")) = 13
    /\ \A j \in 1..(k - 1) :
        Len(SplitOn(IndexFileLines[j], "|")) = 13
            => SplitOn(IndexFileLines[j], "|")[1] # SplitOn(IndexFileLines[k], "|")[1]

\* the lines load keeps, in file order
RECURSIVE KeptLines(_)
KeptLines(k) ==
    IF k = 0 THEN <<>>
    ELSE IF FirstOfItsName(k) THEN Append(KeptLines(k - 1), k) ELSE KeptLines(k - 1)

\* C7: when load returns, the ports dict holds one record per identifier found
\* among the 13-field lines, in file order, each built from the fields of the
\* first such line (the maintainer lower-cased); every other line was dropped
\* with one error logged; 'FreeBSD ports' is the number of records.
C7_LoadFirstWins ==
    pc = "loaded" =>
        LET kept == KeptLines(Len(IndexFileLines))
        IN  /\ Len(ports) = Len(kept)
            /\ \A n \in 1..Len(kept) :
                LET fields == SplitOn(IndexFileLines[kept[n]], "|")
                IN  /\ ports[n].name = fields[1]
                    /\ DOMAIN ports[n].port = {IndexKeys[f] : f \in 1..12}
                    /\ \A f \in 1..12 :
                        ports[n].port[IndexKeys[f]] =
                            IF IndexKeys[f] = "maintainer" THEN Lower(fields[f + 1])
                            ELSE fields[f + 1]
            /\ log["error"] = Len(IndexFileLines) - Len(kept)
            /\ counters["FreeBSD ports"] = Len(kept)

\* load has returned one record from an index of three lines: a 14-field line
\* carrying the identifier, then two 13-field lines with it
C7_Witness ==
    /\ pc = "loaded"
    /\ IndexFileLines = <<P1Line \o "|", P1Line, P1Again>>
    /\ Len(ports) = 1
    /\ ports[1].port["comment"] = "Tool"
    /\ log["error"] = 2

\* the stages of main after update_with_makefiles, in order
Stages ==
    <<"check_port_path", "check_installation_prefix", "check_comment",
      "check_description_file", "check_plist", "check_maintainer", "check_categories",
      "check_www_site", "check_marks", "check_static_ports", "print_notifications",
      "print_summary", "exit">>

\* the run went through the checks and printed the summary
Reported == \E n \in 1..Len(out) : out[n].section = "summary"

\* main is past this stage: a run that exits without the summary did not go
\* through the stages
Done(stage) ==
    /\ \E i, j \in 1..Len(Stages) : i < j /\ Stages[i] = stage /\ Stages[j] = pc
    /\ pc = "exit" => Reported

\* the four cross-checks: the check, the index key, the recipe variable, the
\* counter and notification kind
CrossChecks ==
    { <<"check_comment", "comment", "COMMENT", "Diverging comments">>,
      <<"check_maintainer", "maintainer", "MAINTAINER", "Diverging maintainers">>,
      <<"check_categories", "categories", "CATEGORIES", "Diverging categories">>,
      <<"check_www_site", "www-site", "WWW", "Diverging www-site">> }

\* the recipe value of the k-th record for this cross-check has the marker
Marked(k, x) == x[3] \in DOMAIN ports[k].port /\ Contains(ports[k].port[x[3]], "$")

\* the recipe value of the k-th record has no marker and differs from the index
Differs(k, x) ==
    /\ x[3] \in DOMAIN ports[k].port
    /\ ~Contains(ports[k].port[x[3]], "$")
    /\ CASE x[3] = "COMMENT" ->
                Replace(ports[k].port["comment"], "\\", "")
                    # Replace(ports[k].port["COMMENT"], "\\", "")
         [] x[3] = "MAINTAINER" ->
                ports[k].port["maintainer"] # Lower(ports[k].port["MAINTAINER"])
         [] x[3] = "CATEGORIES" -> ports[k].port["categories"] # ports[k].port["CATEGORIES"]
         [] x[3] = "WWW" -> ~InList(ports[k].port["www-site"], Split(ports[k].port["WWW"]))

\* the ledger lists the k-th record under this kind, for anyone
ListedFor(k, kind) == \E m \in DOMAIN notifications : Notified(notifications, m, kind, NameOf(k))

\* C9: for each of the four cross-checks, a record whose recipe value contains
\* '$' is never listed under 'Diverging ...' and never counted, whatever the
\* index value; and the records after it are still processed: one that diverges
\* is listed once the check is over.
C9_MarkerDisablesComparison ==
    \A x \in CrossChecks :
        /\ \A k \in 1..Len(ports) : Marked(k, x) => ~ListedFor(k, x[4])
        /\ counters[x[4]] = Cardinality({k \in 1..Len(ports) : ListedFor(k, x[4])})
        /\ \A i, j \in 1..Len(ports) :
            (i < j /\ Marked(i, x) /\ Differs(j, x) /\ Done(x[1]))
                => Notified(notifications, MaintainerOf(j), x[4], NameOf(j))

\* the checks are over; the first record had '$' in CATEGORIES and in WWW, which
\* differ from the index, and only the second is listed and counted
C9_Witness ==
    /\ pc = "print_notifications"
    /\ Len(ports) = 2
    /\ "CATEGORIES" \in DOMAIN ports[1].port /\ ports[1].port["CATEGORIES"] = "devel ${EXTRA}"
    /\ "WWW" \in DOMAIN ports[1].port /\ ports[1].port["WWW"] = "http://a.org/${PORTNAME}"
    /\ notifications["b@x.org"]["Diverging categories"] = <<"r2-1.0">>
    /\ notifications["b@x.org"]["Diverging www-site"] = <<"r2-1.0">>
    /\ counters["Diverging categories"] = 1
    /\ counters["Diverging www-site"] = 1

\* update_with_makefiles has returned
Updated == pc = "check_port_path" \/ Done("check_port_path")

\* a name of [A-Z_]+
IsVariableName(name) ==
    /\ name # ""
    /\ \A i \in 1..Len(name) : InChars(Char(name, i), UpperLetters) \/ Char(name, i) = "_"

\* the lines update_with_makefiles reads for the k-th record
MakefileOf(k) ==
    IF IsDir(fs, ports[k].port["port-path"])
            /\ IsFile(fs, ports[k].port["port-path"] \o "/Makefile")
    THEN ReadLines(fs, ports[k].port["port-path"] \o "/Makefile")
    ELSE <<>>

\* what each line of the Makefiles assigns when it stands alone: the variable
\* and its value
Assignments ==
    ("COMMENT=\tTool" :> <<"COMMENT", "Tool">>)
    @@ ("COMMENT=\t${PORTNAME} tool" :> <<"COMMENT", "${PORTNAME} tool">>)
    @@ ("COMMENT=\tDifferent" :> <<"COMMENT", "Different">>)
    @@ ("MAINTAINER=\t${USER}@x.org" :> <<"MAINTAINER", "${USER}@x.org">>)
    @@ ("MAINTAINER=\tC@x.org # new" :> <<"MAINTAINER", "C@x.org">>)
    @@ ("MAINTAINER=\tc@x.org" :> <<"MAINTAINER", "c@x.org">>)
    @@ ("MAINTAINER=\ta@X.org" :> <<"MAINTAINER", "a@X.org">>)
    @@ ("CATEGORIES=\tdevel ${EXTRA}" :> <<"CATEGORIES", "devel ${EXTRA}">>)
    @@ ("CATEGORIES=\twww" :> <<"CATEGORIES", "www">>)
    @@ ("CATEGORIES=\tnet" :> <<"CATEGORIES", "net">>)
    @@ ("WWW=\thttp://a.org/${PORTNAME}" :> <<"WWW", "http://a.org/${PORTNAME}">>)
    @@ ("WWW=\thttp://c.org/" :> <<"WWW", "http://c.org/">>)

\* line i of the Makefile is an assignment of its own: not the continuation
\* of the line before
Assigns(lines, i) ==
    /\ lines[i] \in DOMAIN Assignments
    /\ i > 1 => lines[i - 1] # ContinuedLine

\* C10: after update_with_makefiles every record still has the twelve fields
\* load gave it, with the same values; the other keys are variable names of
\* [A-Z_]+ that a line of the Makefile assigns and the last-modification time;
\* and a variable has the value of the last line that assigns it, the other
\* variables keeping theirs.
C10_RecipeNeverOverwritesIndex ==
    Updated =>
        \A n \in 1..Len(ports) :
            LET port == ports[n].port
                lines == MakefileOf(n)
            IN  /\ \E k \in 1..Len(IndexFileLines) :
                    LET fields == SplitOn(IndexFileLines[k], "|")
                    IN  /\ fields[1] = NameOf(n)
                        /\ FirstOfItsName(k)
                        /\ \A f \in 1..12 :
                            /\ IndexKeys[f] \in DOMAIN port
                            /\ port[IndexKeys[f]] =
                                    IF IndexKeys[f] = "maintainer" THEN Lower(fields[f + 1])
                                    ELSE fields[f + 1]
                /\ \A key \in DOMAIN port \ {IndexKeys[f] : f \in 1..12} :
                    \/ key = "Last modification"
                    \/ /\ IsVariableName(key)
                       /\ \E i \in 1..Len(lines) : Sub(lines[i], 1, Len(key) + 1) = key \o "="
                /\ \A i \in 1..Len(lines) :
                    (/\ Assigns(lines, i)
                     /\ \A j \in (i + 1)..Len(lines) :
                            /\ lines[j] # ContinuedLine
                            /\ Assigns(lines, j)
                                => Assignments[lines[j]][1] # Assignments[lines[i]][1])
                    => /\ Assignments[lines[i]][1] \in DOMAIN port
                       /\ port[Assignments[lines[i]][1]] = Assignments[lines[i]][2]

\* the Makefile of the first record assigned COMMENT twice: the record has the
\* second value of COMMENT and the comment of the index; so has the second
\* record for its maintainer
C10_Witness ==
    /\ pc = "check_port_path"
    /\ Len(ports) = 2
    /\ MakefileOf(1) = <<"COMMENT=\tTool", "COMMENT=\t${PORTNAME} tool">>
    /\ ports[1].port["COMMENT"] = "${PORTNAME} tool"
    /\ ports[1].port["comment"] = "Tool"
    /\ ports[2].port["MAINTAINER"] = "c@x.org"
    /\ ports[2].port["maintainer"] = "b@x.org"

\* every entry of the ledger: maintainer, kind, port
Ledger(notif) ==
    UNION {UNION {{<<m, kind, notif[m][kind][n]>> : n \in 1..Len(notif[m][kind])} :
                    kind \in DOMAIN notif[m]} : m \in DOMAIN notif}

\* the records whose MAINTAINER has no '$' and is not the maintainer of the
\* index, the case of the letters apart
DivergingMaintainers ==
    {k \in 1..Len(ports) :
        Differs(k, <<"check_maintainer", "maintainer", "MAINTAINER", "Diverging maintainers">>)}

\* what C11 says of check_maintainer
MaintainersCrossChecked ==
    /\ counters' = [counters EXCEPT
                        !["Diverging maintainers"] = @ + Cardinality(DivergingMaintainers)]
    /\ Ledger(notifications') =
            Ledger(notifications)
                \cup {<<MaintainerOf(k), "Diverging maintainers", NameOf(k)>> :
                        k \in DivergingMaintainers}
                \cup {<<ports[k].port["MAINTAINER"], "Diverging maintainers", NameOf(k)>> :
                        k \in DivergingMaintainers}
    /\ \A k \in DivergingMaintainers :
        \A m \in {MaintainerOf(k), ports[k].port["MAINTAINER"]} :
            Occurrences(notifications'[m]["Diverging maintainers"], NameOf(k)) = 1

\* C11: check_maintainer adds one to 'Diverging maintainers' for each record
\* whose MAINTAINER has no '$' and differs from the index maintainer after case
\* folding, and lists the record once under 'Diverging maintainers' for the
\* index maintainer and for the MAINTAINER value as written; for the other
\* records, counters and ledger are unchanged.
C11_MaintainerCrossCheck ==
    [][(pc = "check_maintainer" /\ pc' = "check_categories") => MaintainersCrossChecked]_vars

\* the first record has MAINTAINER C@x.org against a@x.org in the index, the
\* second c@x.org against b@x.org: four entries, the recipe ones as written
C11_Witness ==
    /\ pc = "check_categories"
    /\ Len(ports) = 2
    /\ "MAINTAINER" \in DOMAIN ports[1].port /\ ports[1].port["MAINTAINER"] = "C@x.org"
    /\ counters["Diverging maintainers"] = 2
    /\ {t \in Ledger(notifications) : t[2] = "Diverging maintainers"} =
            { <<"a@x.org", "Diverging maintainers", "r1-1.0">>,
              <<"C@x.org", "Diverging maintainers", "r1-1.0">>,
              <<"b@x.org", "Diverging maintainers", "r2-1.0">>,
              <<"c@x.org", "Diverging maintainers", "r2-1.0">> }

\* the prefix is one of the alternate prefixes
AlternatePrefix(prefix) ==
    \/ prefix \in {"/compat/linux", "/usr/local/FreeBSD_ARM64", "/var/qmail", "/usr"}
    \/ StartsWith(prefix, "/usr/local/android")

\* the exceptions: the alternate prefix together with the identifier pattern
FixedException(prefix, name) ==
    \/ prefix = "/compat/linux" /\ StartsWith(name, "linux")
    \/ prefix = "/usr/local/FreeBSD_ARM64" /\ Contains(name, "-aarch64-")
    \/ StartsWith(prefix, "/usr/local/android") /\ Contains(name, "droid")
    \/ prefix = "/var/qmail" /\ (Contains(name, "qmail") \/ StartsWith(name, "queue-fix"))
    \/ prefix = "/usr" /\ (StartsWith(name, "global-tz-") \/ StartsWith(name, "zoneinfo-"))

\* the records that are to be found with an unusual prefix
UnusualPrefixes ==
    {k \in 1..Len(ports) :
        /\ ports[k].port["installation-prefix"] # "/usr/local"
        /\ ~FixedException(ports[k].port["installation-prefix"], NameOf(k))}

\* C12: after check_installation_prefix a record has no finding only if its
\* prefix is /usr/local or its prefix and identifier match one exception, prefix
\* and pattern both; every record whose prefix is neither /usr/local nor an
\* alternate prefix is counted and notified once under 'Unusual
\* installation-prefix', whatever its identifier.
C12_PrefixPolicy ==
    Done("check_installation_prefix") =>
        /\ counters["Unusual installation-prefix"] = Cardinality(UnusualPrefixes)
        /\ \A k \in 1..Len(ports) :
            /\ k \in UnusualPrefixes
                <=> Notified(notifications, MaintainerOf(k), "Unusual installation-prefix",
                             NameOf(k))
            /\ (/\ ports[k].port["installation-prefix"] # "/usr/local"
                /\ ~AlternatePrefix(ports[k].port["installation-prefix"]))
                => Notified(notifications, MaintainerOf(k), "Unusual installation-prefix",
                            NameOf(k))

\* the number of words of the list that are not in PORT_CATEGORIES
RECURSIVE UnofficialOccurrences(_)
UnofficialOccurrences(categories) ==
    IF categories = <<>> THEN 0
    ELSE (IF categories[1] \in PORT_CATEGORIES THEN 0 ELSE 1)
         + UnofficialOccurrences(Tail(categories))

\* the words check_categories looks up for the k-th record: the list of the
\* index, and the list of the Makefile when it has one without '$'
CategoryWords(k) ==
    Split(ports[k].port["categories"])
    \o (IF "CATEGORIES" \in DOMAIN ports[k].port /\ ~Contains(ports[k].port["CATEGORIES"], "$")
        THEN Split(ports[k].port["CATEGORIES"]) ELSE <<>>)

RECURSIVE UnofficialUpTo(_)
UnofficialUpTo(k) ==
    IF k = 0 THEN 0 ELSE UnofficialOccurrences(CategoryWords(k)) + UnofficialUpTo(k - 1)

\* what C17 says of check_categories
CategoriesChecked ==
    /\ counters'["Unofficial categories"] =
            counters["Unofficial categories"] + UnofficialUpTo(Len(ports))
    /\ {t \in Ledger(notifications') : t[2] = "Unofficial category"} =
            {<<MaintainerOf(k), "Unofficial category", NameOf(k)>> :
                k \in {n \in 1..Len(ports) : UnofficialOccurrences(CategoryWords(n)) > 0}}
    /\ \A k \in 1..Len(ports) :
        UnofficialOccurrences(Split(ports[k].port["categories"])) > 0
            => Occurrences(notifications'[MaintainerOf(k)]["Unofficial category"], NameOf(k)) = 1

Stale(k, mark) ==
    GetMTime(fs, ports[k].port["port-path"] \o "/Makefile")
        < Today - parameters["Limits"][mark \o " since"] * HoursPerDay

\* the records with the mark, stale or not
MarkedRecords(mark, stale) ==
    {k \in 1..Len(ports) : mark \in DOMAIN ports[k].port /\ Stale(k, mark) = stale}

\* C13: after check_marks, for each mark X of BROKEN, FORBIDDEN and DEPRECATED
\* and each record that has X, one of 'Marked as X' and 'Marked as X for too
\* long' counts the record and that kind alone is notified to its maintainer:
\* the stale one iff the Makefile was modified before now minus the threshold
\* of X; a record with IGNORE is counted under 'Marked as IGNORE' and nothing
\* is added to the ledger for it.
C13_StatusMarks ==
    Done("check_marks") =>
        /\ \A mark \in {"BROKEN", "FORBIDDEN", "DEPRECATED"} :
            /\ counters["Marked as " \o mark \o " for too long"]
                    = Cardinality(MarkedRecords(mark, TRUE))
            /\ counters["Marked as " \o mark] = Cardinality(MarkedRecords(mark, FALSE))
            /\ \A k \in 1..Len(ports) :
                /\ Notified(notifications, MaintainerOf(k),
                            "Marked as " \o mark \o " for too long", NameOf(k))
                        <=> k \in MarkedRecords(mark, TRUE)
                /\ Notified(notifications, MaintainerOf(k), "Marked as " \o mark, NameOf(k))
                        <=> k \in MarkedRecords(mark, FALSE)
        /\ counters["Marked as IGNORE"]
                = Cardinality({k \in 1..Len(ports) : "IGNORE" \in DOMAIN ports[k].port})
        /\ \A t \in Ledger(notifications) : t[2] # "Marked as IGNORE"

\* the record passes the three filters, an empty list being no filter
PassesFilters(entry) ==
    /\ \/ parameters["Maintainers"] = <<>>
       \/ InList(entry.port["maintainer"], parameters["Maintainers"])
    /\ \/ parameters["Categories"] = <<>>
       \/ \E n \in 1..Len(Split(entry.port["categories"])) :
            InList(Split(entry.port["categories"])[n], parameters["Categories"])
    /\ \/ parameters["Ports"] = <<>>
       \/ InList(AfterLastSlash(entry.port["port-path"]), parameters["Ports"])

\* C14: filter_ports returns the records that pass every active filter, in
\* order and unchanged -- all of them when no filter is active -- and 'Selected
\* ports' is their number.
C14_FilterIntersection ==
    [][(pc = "loaded" /\ ~parameters["Show categories"] /\ ~parameters["Show maintainers"])
        => /\ pc' = "update_with_makefiles"
           /\ ports' = SelectSeq(ports, PassesFilters)
           /\ counters' = [counters EXCEPT !["Selected ports"] = Len(ports')]]_vars

\* the summary mode the command line asks for last: "" without one
LastMode ==
    LET modes == {i \in 1..Len(argv) : argv[i][1] \in {"-C", "--show-cat", "-M", "--show-mnt"}}
    IN  IF modes = {} THEN ""
        ELSE LET last == CHOOSE i \in modes : \A j \in modes : j <= i
             IN  IF argv[last][1] \in {"-C", "--show-cat"} THEN "categories"
                 ELSE "maintainers"

\* C15: once the options are processed, at most one of 'Show categories' and
\* 'Show maintainers' is set, whatever the -C and -M options and their order:
\* the one asked for last;
\* and when one is set the run goes from load to the summary of that mode and
\* exits with status 0: no filter, no Makefile, no check -- every counter but
\* 'FreeBSD ports' stays 0 and the ledger stays empty.
C15_SummaryModes ==
    pc # "_process_command_line" =>
        /\ ~(parameters["Show categories"] /\ parameters["Show maintainers"])
        /\ parameters["Show categories"] <=> LastMode = "categories"
        /\ parameters["Show maintainers"] <=> LastMode = "maintainers"
        /\ (parameters["Show categories"] \/ parameters["Show maintainers"]) =>
            /\ pc \in {"load_freebsd_ports_dict", "loaded", "exit"}
            /\ \A c \in CounterNames \ {"FreeBSD ports"} : counters[c] = 0
            /\ notifications = <<>>
            /\ \A n \in 1..Len(ports) : DOMAIN ports[n].port = {IndexKeys[f] : f \in 1..12}
            /\ pc = "exit" =>
                /\ status = 0
                /\ Len(out) = 1
                /\ out[1].section =
                        IF parameters["Show categories"] THEN "categories" ELSE "maintainers"

\* the run was asked for the categories, then for the maintainers: it printed
\* the maintainers of the two records and exited
C15_Witness ==
    /\ pc = "exit"
    /\ argv = <<<<"-C", "">>, <<"--show-mnt", "">>>>
    /\ ~parameters["Show categories"] /\ parameters["Show maintainers"]
    /\ counters["FreeBSD ports"] = 2
    /\ counters["Selected ports"] = 0
    /\ Len(out) = 1 /\ out[1].section = "maintainers"
    /\ status = 0

\* a full run without network checks is past its checks, over an index of one
\* record with the comment "too short" and no site, whose directory exists and
\* holds no Makefile
ShortCommentScenario ==
    /\ pc \in {"print_notifications", "print_summary"} \/ (pc = "exit" /\ Reported)
    /\ ~parameters["Checks"]["Hostnames"] /\ ~parameters["Checks"]["URL"]
    /\ counters["FreeBSD ports"] = 1
    /\ Len(ports) = 1
    /\ ports[1].port["comment"] = "too short"
    /\ WwwOf(1) = ""
    /\ IsDir(fs, ports[1].port["port-path"])
    /\ ~IsFile(fs, ports[1].port["port-path"] \o "/Makefile")

\* the ledger entry of the maintainer has these kinds, each with the record alone
LedgerKinds(kinds) ==
    /\ DOMAIN notifications = {MaintainerOf(1)}
    /\ DOMAIN notifications[MaintainerOf(1)] = kinds
    /\ \A kind \in kinds : notifications[MaintainerOf(1)][kind] = <<NameOf(1)>>

RECURSIVE UnescapedHash(_, _)
UnescapedHash(s, i) ==
    IF i > Len(s) THEN 0
    ELSE IF Char(s, i) = "#" /\ (i = 1 \/ Char(s, i - 1) # "\\") THEN i
    ELSE UnescapedHash(s, i + 1)

\* the content of a physical line: the trimmed line up to the blanks before
\* its first unescaped '#'
Uncommented(line) ==
    LET trimmed == Strip(line)
        hash == UnescapedHash(trimmed, 1)
    IN  IF hash = 0 THEN trimmed ELSE RStripBlank(Sub(trimmed, 1, hash - 1))

\* the physical line is continued: its content ends in a backslash
Continued(line) == EndsWith(Uncommented(line), "\\")

\* the same content with every run of continued lines written on one line
RECURSIVE Unbroken(_, _)
Unbroken(lines, buffer) ==
    IF lines = <<>> THEN IF buffer = "" THEN <<>> ELSE <<buffer \o "\\">>
    ELSE IF Continued(lines[1])
    THEN Unbroken(Tail(lines),
                  buffer \o Sub(Uncommented(lines[1]), 1, Len(Uncommented(lines[1])) - 1))
    ELSE <<buffer \o Strip(lines[1])>> \o Unbroken(Tail(lines), "")

\* the lines up to the last one that is not continued
RECURSIVE Finalized(_)
Finalized(lines) ==
    IF lines = <<>> \/ ~Continued(lines[Len(lines)]) THEN lines
    ELSE Finalized(SubSeq(lines, 1, Len(lines) - 1))

\* the k-th record as it was before the lines of its Makefile were read
BeforeLines(k) ==
    [key \in DOMAIN ports[k].port \cap ({IndexKeys[f] : f \in 1..12} \cup {"Last modification"})
        |-> ports[k].port[key]]

\* C18: the variables a record gets from its Makefile are those of the same
\* content with every run of continued lines written on one line, so that an
\* assignment is matched only where a line is not continued; what follows a
\* line that is not continued is read as if the file started there; and a
\* last line that is continued, with the lines it continues, assigns nothing.
C18_ContinuedLines ==
    Updated =>
        \A k \in 1..Len(ports) :
            LET lines == MakefileOf(k)
                port == ports[k].port
                before == BeforeLines(k)
            IN  /\ port = ParseMakefile(before, Unbroken(lines, ""), "")
                /\ \A i \in 1..Len(lines) :
                    ~Continued(lines[i]) =>
                        port = ParseMakefile(ParseMakefile(before, SubSeq(lines, 1, i), ""),
                                             SubSeq(lines, i + 1, Len(lines)), "")
                /\ port = ParseMakefile(before, Finalized(lines), "")

\* C19: a Makefile of one line that is not continued gives the record the
\* assignment of the content of the line -- the trimmed line without '#', the
\* text before the blanks and the first unescaped '#' otherwise, an escaped
\* '#' staying as written; and stripping a line without '#' gives the trimmed
\* line, which stripping again leaves as it is.
C19_CommentStripping ==
    Updated =>
        \A k \in 1..Len(ports) :
            LET lines == MakefileOf(k)
                port == ports[k].port
            IN  (Len(lines) = 1 /\ ~Continued(lines[1])) =>
                    LET group == MatchAssignment(Uncommented(lines[1]))
                    IN  /\ group.matched =>
                            /\ group.name \in DOMAIN port
                            /\ port[group.name] = group.value
                        /\ ~group.matched => port = BeforeLines(k)
                        /\ ~Contains(lines[1], "#") =>
                            /\ LogicalLine("", lines[1]) = Strip(lines[1])
                            /\ LogicalLine("", LogicalLine("", lines[1]))
                                    = LogicalLine("", lines[1])

\* the number of the last line that is not blank; 0 without one
RECURSIVE LastNonBlank(_)
LastNonBlank(lines) ==
    IF lines = <<>> THEN 0
    ELSE IF Strip(lines[Len(lines)]) # "" THEN Len(lines)
    ELSE LastNonBlank(SubSeq(lines, 1, Len(lines) - 1))

\* the last line that is not blank is a bare URL
EndsWithUrl(lines) ==
    /\ LastNonBlank(lines) > 0
    /\ \/ StartsWith(Strip(lines[LastNonBlank(lines)]), "https://")
       \/ StartsWith(Strip(lines[LastNonBlank(lines)]), "http://")

\* the text compared with the comment: the lines without that URL
ComparedText(lines) ==
    Strip(Join(" ", IF EndsWithUrl(lines)
                    THEN SubSeq(lines, 1, LastNonBlank(lines) - 1)
                            \o SubSeq(lines, LastNonBlank(lines) + 1, Len(lines))
                    ELSE lines))

\* the finding about the k-th record was counted and notified, or neither
FoundOnce(found, kind, k) ==
    /\ counters[kind] = IF found THEN 1 ELSE 0
    /\ Notified(notifications, MaintainerOf(k), kind, NameOf(k)) <=> found

\* C20: for a single record with a readable description file that has lines,
\* blank lines after the last non-blank one or not: 'URL ending
\* description-file' is counted and notified once when the last non-blank line
\* starts with http:// or https://, and that line is left out of the text
\* compared with the comment; 'description-file same as comment' is found when
\* the text is the comment, 'Too short description-file' when it is not and
\* is no longer than the comment, never both.
C20_DescriptionUrl ==
    (Done("check_description_file") /\ Len(ports) = 1) =>
        LET descr == ports[1].port["description-file"]
            lines == IF IsFile(fs, descr) THEN ReadLines(fs, descr) ELSE <<>>
            text == ComparedText(lines)
            comment == ports[1].port["comment"]
        IN  lines # <<>> =>
                /\ FoundOnce(EndsWithUrl(lines), "URL ending description-file", 1)
                /\ FoundOnce(comment = text, "description-file same as comment", 1)
                /\ FoundOnce(comment # text /\ Len(text) <= Len(comment),
                             "Too short description-file", 1)

\* the records of the index
LoadedRecords ==
    LoadLines([ports |-> <<>>, log |-> InitialLog], ReadLines(fs, PortsIndex(platform))).ports

\* the state update_with_makefiles leaves to the first check when these are
\* the records selected
EnrichedFrom(records) ==
    update_with_makefiles(
        [ports |-> records,
         counters |-> [InitialCounters EXCEPT !["FreeBSD ports"] = Len(LoadedRecords),
                                              !["Selected ports"] = Len(records)],
         notifications |-> <<>>, log |-> InitialLog, calls |-> <<>>, raised |-> FALSE,
         unresolvable_hostnames |-> <<>>, url_ok |-> <<>>, url_ko |-> <<>>, net |-> <<>>],
        fs)

\* the state update_with_makefiles leaves to the first check
Enriched ==
    EnrichedFrom(filter_ports(LoadedRecords, parameters["Categories"],
                              parameters["Maintainers"], parameters["Ports"]).ports)

\* what the ten checks give in the order of main
InMainOrder == RunChecks(MainOrder, Enriched, fs, parameters)

\* C21: the ten checks called in any order over the same enriched records, in
\* the same environment, end with the counters and the ledger content (the
\* maintainers, their issue kinds, the identifiers of each kind) that the
\* order of main gives; and an order raises an exception only if the order of
\* main does.
C21_OrderIndependence ==
    /\ (called = Checks /\ pc \in {"print_notifications", "print_summary", "exit"}) =>
        /\ ~InMainOrder.raised
        /\ counters = InMainOrder.counters
        /\ Ledger(notifications) = Ledger(InMainOrder.notifications)
        /\ DOMAIN notifications = DOMAIN InMainOrder.notifications
        /\ \A m \in DOMAIN notifications :
                DOMAIN notifications[m] = DOMAIN InMainOrder.notifications[m]
    /\ (called # {} /\ pc = "crashed") => InMainOrder.raised

\* the last two checks of main were called first, check_static_ports before
\* check_marks, and each reported the first port
C21_Witness ==
    /\ pc = "checks"
    /\ called = {"check_static_ports", "check_marks"}
    /\ Len(ports) = 2
    /\ notifications["a@x.org"]["Unchanged for a long time"] = <<"o1-1.0">>
    /\ notifications["a@x.org"]["Marked as BROKEN for too long"] = <<"o1-1.0">>
    /\ counters["Unusual installation-prefix"] = 0

\* the findings of a run where the records that pass every active filter are
\* the records selected
FindingsOfPassing ==
    RunChecks(MainOrder, EnrichedFrom(SelectSeq(LoadedRecords, PassesFilters)), fs, parameters)

\* the counters of the findings
IssueCounters == CounterNames \ {"FreeBSD ports", "Selected ports"}

\* C22: in a full run, every identifier in the ledger is that of a record that
\* passes every active filter, and at its report the issue counters and the
\* ledger are those that the passing records alone give: no record that a
\* filter rejects is counted, 'Nonexistent Makefile' included.
C22_FindingsOfSelected ==
    /\ \A t \in Ledger(notifications) :
        \E k \in 1..Len(ports) : NameOf(k) = t[3] /\ PassesFilters(ports[k])
    /\ pc = "print_notifications" =>
        /\ \A c \in IssueCounters : counters[c] = FindingsOfPassing.counters[c]
        /\ Ledger(notifications) = Ledger(FindingsOfPassing.notifications)

\* the directory of the k-th record exists; it holds a Makefile
HasDirectory(k) == IsDir(fs, ports[k].port["port-path"])

HasMakefile(k) == HasDirectory(k) /\ IsFile(fs, ports[k].port["port-path"] \o "/Makefile")

\* C23: after update_with_makefiles, a record has 'Last modification' iff its
\* directory exists and holds the Makefile; without it the record has the
\* twelve fields of the index and no variable; 'Nonexistent Makefile' counts
\* the records whose directory exists without a Makefile, each notified once
\* to its maintainer, the records without directory not at all; so that a
\* record with BROKEN, FORBIDDEN or DEPRECATED has 'Last modification', and
\* check_marks raises no exception.
C23_LastModification ==
    /\ Updated =>
        /\ \A k \in 1..Len(ports) :
            LET port == ports[k].port
                missing == HasDirectory(k) /\ ~HasMakefile(k)
            IN  /\ "Last modification" \in DOMAIN port <=> HasMakefile(k)
                /\ ~HasMakefile(k) => DOMAIN port = {IndexKeys[f] : f \in 1..12}
                /\ Notified(notifications, MaintainerOf(k), "Nonexistent Makefile", NameOf(k))
                        <=> missing
                /\ missing =>
                    Occurrences(notifications[MaintainerOf(k)]["Nonexistent Makefile"],
                                NameOf(k)) = 1
                /\ \A mark \in {"BROKEN", "FORBIDDEN", "DEPRECATED"} :
                    mark \in DOMAIN port => "Last modification" \in DOMAIN port
        /\ counters["Nonexistent Makefile"] =
                Cardinality({k \in 1..Len(ports) : HasDirectory(k) /\ ~HasMakefile(k)})
    /\ pc = "crashed" => "check_marks" \notin called

\* check_marks has judged the first record, which has BROKEN and a Makefile of
\* 200 days; the second record has no directory: no modification time, no
\* missing Makefile
C23_Witness ==
    /\ pc = "check_static_ports"
    /\ Len(ports) = 2
    /\ HasMakefile(1) /\ "BROKEN" \in DOMAIN ports[1].port
    /\ ports[1].port["Last modification"] = -200 * HoursPerDay
    /\ counters["Marked as BROKEN for too long"] = 1
    /\ ~HasDirectory(2) /\ "Last modification" \notin DOMAIN ports[2].port
    /\ counters["Nonexistent Makefile"] = 0

\* the issue kinds that are counted and notified under the same name: not
\* the package lists and IGNORE, which are only counted, nor the unofficial
\* categories and the inaccessible sites, which are notified under other names
CountedAndNotified ==
    IssueCounters \ {"Nonexistent pkg-plist", "Marked as IGNORE", "Unofficial categories",
                     "Unaccessible www-site"}

\* the number of records listed for the kind in the ledger entry of their
\* maintainer of the index
ListedRecords(kind) ==
    Cardinality({k \in 1..Len(ports) :
                    Notified(notifications, MaintainerOf(k), kind, NameOf(k))})

\* C24: when the summary is printed, every issue counter is at most 'Selected
\* ports', a record adding at most one to each; and the counter of a kind that
\* is counted and notified under the same name is the number of records the
\* ledger lists for that kind under their maintainer of the index.
C24_CountersCountPorts ==
    pc = "print_summary" =>
        /\ \A c \in IssueCounters : counters[c] <= counters["Selected ports"]
        /\ \A kind \in CountedAndNotified : counters[kind] = ListedRecords(kind)

====
